---- MODULE Spec2Model ----
(***************************************************************************)
(* Tip and hours calculator: the spreadsheet-shape heuristics of           *)
(* calculator/tips.py, the clock aggregation of calculator/clock.py and   *)
(* the proportional tip distribution built on them.                        *)
(*                                                                         *)
(* Representation.  A pandas cell is a one-field record: [num |-> n] a     *)
(* number, [str |-> s] a text, NaN the missing value.  A column name or a  *)
(* file name is a sequence of one-character strings, so that lower-casing  *)
(* and substring search are computed and not assumed.  A DataFrame is      *)
(* [columns |-> Seq(name), rows |-> Seq(Seq(cell))].  Money is kept as an  *)
(* integer number of 1/Scale units, so that T * (h / H) is exact.          *)
(***************************************************************************)
EXTENDS Integers, Sequences, FiniteSets, TLC

VARIABLES
    pc,                       \* position in the routine under execution
    df_or_list,               \* distribute_daily_tips_df: the tips source(s)
    date_col, tips_col, hours_col, name_col,
    clock_df, clock_employee_col, clock_date_col, clock_hours_col,
    df,                       \* the working table
    daily_groups,             \* the dates still to be iterated, ascending
    final_tip_distribution,   \* dict in insertion order: Seq of <<name, amount>>
    export_df,                \* the returned export table
    exc,                      \* the exception that reached the caller, or "none"
    warning,                  \* where the exception logged by logger.warning arose
    args,                     \* the arguments of a helper called on its own
    ret                       \* what that call returned or raised

vars == <<pc, df_or_list, date_col, tips_col, hours_col, name_col,
          clock_df, clock_employee_col, clock_date_col, clock_hours_col,
          df, daily_groups, final_tip_distribution, export_df, exc, warning,
          args, ret>>

(***************************************************************************)
(* Bounds of the model.                                                    *)
(***************************************************************************)
MaxRows == 2        \* rows of an enumerated tips table
MaxClockRows == 1   \* rows of an enumerated clock table

(***************************************************************************)
(* Cells, names and tables.                                                *)
(***************************************************************************)
None == <<>>
NaN == [nan |-> TRUE]
Num(n) == [num |-> n]
Str(s) == [str |-> s]
IsNum(c) == DOMAIN c = {"num"}
IsStr(c) == DOMAIN c = {"str"}

\* str.lower() on the letters that occur in the names of the model
lower(s) ==
    LET up == <<"A","B","C","D","E","F","G","H","I","J","K","L","M",
                "N","O","P","Q","R","S","T","U","V","W","X","Y","Z">>
        lo == <<"a","b","c","d","e","f","g","h","i","j","k","l","m",
                "n","o","p","q","r","s","t","u","v","w","x","y","z">>
        ch(c) == IF \E i \in 1..26 : up[i] = c
                 THEN lo[CHOOSE i \in 1..26 : up[i] = c] ELSE c
    IN  [i \in 1..Len(s) |-> ch(s[i])]

\* Python's `kw in text` on strings
Contains(kw, text) ==
    \E i \in 0..(Len(text) - Len(kw)) : SubSeq(text, i + 1, i + Len(kw)) = kw

HasCol(frame, c) == \E i \in 1..Len(frame.columns) : frame.columns[i] = c
ColIdx(frame, c) == CHOOSE i \in 1..Len(frame.columns) : frame.columns[i] = c

\* Python's ordering of the employee names of the model
StrLess(a, b) ==
    LET order == <<"Alice", "Bob", "Daily Tips", "Gina", "Hank">>
        rank(x) == CHOOSE i \in 1..Len(order) : order[i] = x
    IN  rank(a) < rank(b)

RECURSIVE SumSeq(_)
SumSeq(s) == IF s = <<>> THEN 0 ELSE Head(s) + SumSeq(Tail(s))

\* pd.to_datetime on one text: the day number it denotes, 0 when the text is
\* not a date in the format (format None: the format is inferred)
to_datetime(text, format) ==
    CASE text = "2025-11-01" /\ format = None -> 1
      [] text = "2025-11-02" /\ format = None -> 2
      [] text = "01-Nov-25" -> 1
      [] text = "02-Nov-25" -> 2
      [] OTHER -> 0

(***************************************************************************)
(* File kind and header row: is_clock_file, read_file_to_df.               *)
(***************************************************************************)
\* `any(kw in col for col in cols for kw in keywords)`
\* a keyword counted only when it is the whole column name
any_keyword_exact(cols, keywords) ==
    \E col \in cols : \E k \in 1..Len(keywords) : keywords[k] = col

any_keyword(cols, keywords) ==
    \E col \in cols : \E k \in 1..Len(keywords) : Contains(keywords[k], col)

\* the file name searched as it is spelled, without filename.lower()
is_clock_file_case_sensitive(frame, filename) ==
    LET cols_lower == {lower(frame.columns[i]) : i \in 1..Len(frame.columns)}
    IN  IF filename # None /\ (Contains(<<"c","l","o","c","k">>, filename)
                               \/ Contains(<<"t","i","m","e","s","h","e","e","t">>, filename))
        THEN TRUE
        ELSE IF filename # None /\ (Contains(<<"s","a","l","e","s">>, filename)
                                    \/ Contains(<<"t","i","p">>, filename))
        THEN FALSE
        ELSE /\ any_keyword(cols_lower, <<<<"e","m","p","l","o","y","e","e">>, <<"n","a","m","e">>, <<"s","t","a","f","f">>, <<"e","m","p">>>>)
             /\ any_keyword(cols_lower, <<<<"d","a","t","e">>, <<"s","h","i","f","t">>, <<"c","l","o","c","k">>>>)
             /\ any_keyword(cols_lower, <<<<"h","o","u","r">>, <<"h","o","u","r","s">>, <<"h","r","s">>, <<"e","l","a","p","s","e","d">>, <<"t","i","m","e">>>>)
             /\ ~any_keyword(cols_lower, <<<<"t","i","p">>, <<"t","i","p","s">>, <<"g","r","a","t","u","i","t","y">>, <<"g","r","a","t","u","i","t","i","e","s">>>>)

\* is_clock_file(df, filename); a file name that is None or "" is None here,
\* both being false in `if filename:`
is_clock_file(frame, filename) ==
    LET cols_lower == {lower(frame.columns[i]) : i \in 1..Len(frame.columns)}
    IN  IF filename # None /\ (Contains(<<"c","l","o","c","k">>, lower(filename))
                               \/ Contains(<<"t","i","m","e","s","h","e","e","t">>, lower(filename)))
        THEN TRUE
        ELSE IF filename # None /\ (Contains(<<"s","a","l","e","s">>, lower(filename))
                                    \/ Contains(<<"t","i","p">>, lower(filename)))
        THEN FALSE
        ELSE /\ any_keyword(cols_lower, <<<<"e","m","p","l","o","y","e","e">>, <<"n","a","m","e">>, <<"s","t","a","f","f">>, <<"e","m","p">>>>)
             /\ any_keyword(cols_lower, <<<<"d","a","t","e">>, <<"s","h","i","f","t">>, <<"c","l","o","c","k">>>>)
             /\ any_keyword(cols_lower, <<<<"h","o","u","r">>, <<"h","o","u","r","s">>, <<"h","r","s">>, <<"e","l","a","p","s","e","d">>, <<"t","i","m","e">>>>)
             /\ ~any_keyword(cols_lower, <<<<"t","i","p">>, <<"t","i","p","s">>, <<"g","r","a","t","u","i","t","y">>, <<"g","r","a","t","u","i","t","i","e","s">>>>)

\* the number of rows read_file_to_df scans for the header
ScanWindow == 15

\* str(x) of a cell of a raw grid: the text, "nan" for the missing value
str(c) == IF c = NaN THEN <<"n","a","n">> ELSE c.str

\* str.strip() for blanks
RECURSIVE strip(_)
strip(s) ==
    IF s # <<>> /\ Head(s) = " " THEN strip(Tail(s))
    ELSE IF s # <<>> /\ s[Len(s)] = " " THEN strip(SubSeq(s, 1, Len(s) - 1))
    ELSE s

\* ' '.join(texts)
RECURSIVE join(_)
join(texts) ==
    IF texts = <<>> THEN <<>>
    ELSE IF Len(texts) = 1 THEN Head(texts)
    ELSE Head(texts) \o <<" ">> \o join(Tail(texts))

\* line 79: the cells of a row that are neither missing nor blank
non_empty(row) ==
    Cardinality({i \in 1..Len(row) : row[i] # NaN /\ strip(str(row[i])) # <<>>})

\* line 80: the lower-cased text of the row names a report title
has_report_keyword(row) ==
    LET row_str == join([i \in 1..Len(row) |-> lower(str(row[i]))])
        report_kw == <<<<"r","e","p","o","r","t">>, <<"s","a","l","e","s">>, <<"s","u","m","m","a","r","y">>, <<"t","o","t","a","l">>>>
    IN  \E k \in 1..Len(report_kw) : Contains(report_kw[k], row_str)

\* a scan that only tests the fill of 40% and not the report keywords
is_header_row_by_fill(row) == ~(10 * non_empty(row) < 4 * Len(row))

\* lines 82-85: the row is not skipped.  len(df.columns) * 0.4 and * 0.7 are
\* compared in tenths, which is exact for the widths of the model
is_header_row(row) ==
    /\ ~(10 * non_empty(row) < 4 * Len(row))
    /\ ~(has_report_keyword(row) /\ 10 * non_empty(row) < 7 * Len(row))

\* a scan that does not stop at the first row it accepts
find_last_header_idx(raw) ==
    LET scanned == IF Len(raw) < ScanWindow THEN Len(raw) ELSE ScanWindow
        found == {idx \in 0..(scanned - 1) : is_header_row(raw[idx + 1])}
    IN  IF Len(raw) > 1 /\ found # {}
        THEN CHOOSE idx \in found : \A other \in found : idx >= other
        ELSE 0

\* lines 70-90: the index, from 0, of the header row of a grid that has rows
find_header_idx(raw) ==
    LET scanned == IF Len(raw) < ScanWindow THEN Len(raw) ELSE ScanWindow
        found == {idx \in 0..(scanned - 1) : is_header_row(raw[idx + 1])}
    IN  IF Len(raw) > 1 /\ found # {}
        THEN CHOOSE idx \in found : \A other \in found : idx <= other
        ELSE 0

\* line 59: filename.rsplit(".", 1)[-1].lower() if "." in filename else ""
extension(filename) ==
    IF \E i \in 1..Len(filename) : filename[i] = "."
    THEN lower(SubSeq(filename,
                      1 + CHOOSE i \in 1..Len(filename) :
                             /\ filename[i] = "."
                             /\ \A j \in (i + 1)..Len(filename) : filename[j] # ".",
                      Len(filename)))
    ELSE <<>>

\* read_file_to_df on the grid that pd.read_csv or pd.read_excel reads from
\* the bytes with header=None: [raised |-> type], or the table under the
\* header row and the index of that row
read_file_to_df(raw, filename) ==
    IF extension(filename) \notin {<<"x","l","s","x">>, <<"x","l","s">>, <<"c","s","v">>}
    THEN [raised |-> "ValueError"]
    ELSE IF raw = <<>> THEN [raised |-> "IndexError"]
    ELSE LET header_idx == find_header_idx(raw)
             header_row == [i \in 1..Len(raw[header_idx + 1]) |->
                              strip(str(raw[header_idx + 1][i]))]
         IN  [ok |-> [columns |-> header_row,
                      rows |-> SubSeq(raw, header_idx + 2, Len(raw))],
              header_idx |-> header_idx]

(***************************************************************************)
(* Column role detection: _detect_columns.                                 *)
(***************************************************************************)
\* a keyword list of the code, spelled as character sequences
date_kw == << <<"d","a","t","e">>, <<"s","h","i","f","t">>, <<"d","a","y">>,
              <<"w","o","r","k"," ","d","a","t","e">>,
              <<"s","h","i","f","t"," ","d","a","t","e">> >>
tips_kw == << <<"t","i","p">>, <<"t","i","p","s">>,
              <<"g","r","a","t","u","i","t","y">>,
              <<"g","r","a","t","u","i","t","i","e","s">> >>
hours_kw == << <<"h","o","u","r">>, <<"h","o","u","r","s">>, <<"h","r","s">>,
               <<"w","o","r","k","e","d">>, <<"t","i","m","e">> >>
name_kw == << <<"n","a","m","e">>, <<"e","m","p","l","o","y","e","e">>,
              <<"s","t","a","f","f">>, <<"e","m","p">> >>

\* a search that returns the lower-cased name it matched, not the column
find_by_keywords_lowered(columns, keywords) ==
    LET lowered == [i \in 1..Len(columns) |-> lower(columns[i])]
        hits == {i \in 1..Len(columns) :
                    \E k \in 1..Len(keywords) : Contains(keywords[k], lowered[i])}
    IN  IF hits # {}
        THEN lowered[CHOOSE i \in hits : \A j \in hits : i <= j]
        ELSE None

\* a search that takes the keywords in turn and returns the first column
\* that contains the first keyword found in any column
RECURSIVE find_by_first_keyword(_, _)
find_by_first_keyword(columns, keywords) ==
    LET hits == {i \in 1..Len(columns) : Contains(Head(keywords), lower(columns[i]))}
    IN  IF keywords = <<>> THEN None
        ELSE IF hits # {} THEN columns[CHOOSE i \in hits : \A j \in hits : i <= j]
        ELSE find_by_first_keyword(columns, Tail(keywords))

\* find_by_keywords: the first column, in column order, whose lower-cased
\* name contains one of the keywords; None when there is none
find_by_keywords(columns, keywords) ==
    LET lowered == [i \in 1..Len(columns) |-> lower(columns[i])]
        hits == {i \in 1..Len(columns) :
                    \E k \in 1..Len(keywords) : Contains(keywords[k], lowered[i])}
        hit(i) == i \in hits
    IN  IF \E i \in 1..Len(columns) : hit(i)
        THEN columns[CHOOSE i \in 1..Len(columns) :
                        hit(i) /\ \A j \in 1..(i - 1) : ~hit(j)]
        ELSE None

\* pd.to_datetime(df[c].dropna().iloc[:5]) returns instead of raising
SniffsAsDate(frame, i) ==
    LET cells == SelectSeq([r \in 1..Len(frame.rows) |-> frame.rows[r][i]],
                           LAMBDA c : c # NaN)
        first == SubSeq(cells, 1, IF Len(cells) < 5 THEN Len(cells) ELSE 5)
    IN  \A k \in 1..Len(first) :
            IsNum(first[k]) \/ (IsStr(first[k]) /\ to_datetime(first[k].str, None) # 0)

\* difflib.SequenceMatcher: the number of matched characters of a and b, the
\* longest common block first (earliest in a, then earliest in b), then the
\* same to its left and to its right
RECURSIVE Matches(_, _)
Matches(a, b) ==
    LET RECURSIVE common(_, _)
        \* the length of the block that starts at a[i] and at b[j]
        common(i, j) == IF i > Len(a) \/ j > Len(b) THEN 0
                        ELSE IF a[i] # b[j] THEN 0
                        ELSE 1 + common(i + 1, j + 1)
        longest(blocks) ==
            CHOOSE x \in blocks : \A y \in blocks :
                \/ x[3] > y[3]
                \/ x[3] = y[3] /\ x[1] < y[1]
                \/ x[3] = y[3] /\ x[1] = y[1] /\ x[2] <= y[2]
        around(m) == m[3] + Matches(SubSeq(a, 1, m[1] - 1), SubSeq(b, 1, m[2] - 1))
                          + Matches(SubSeq(a, m[1] + m[3], Len(a)),
                                    SubSeq(b, m[2] + m[3], Len(b)))
        rest(blocks) == IF blocks = {} THEN 0 ELSE around(longest(blocks))
    IN  rest({<<p[1], p[2], common(p[1], p[2])>> :
                p \in {q \in (1..Len(a)) \X (1..Len(b)) : a[q[1]] = b[q[2]]}})

\* Python's < on two lower-cased names
RECURSIVE TextLess(_, _)
TextLess(a, b) ==
    LET order == <<" ", "_", "a","b","c","d","e","f","g","h","i","j","k","l","m",
                   "n","o","p","q","r","s","t","u","v","w","x","y","z">>
        rank(c) == CHOOSE n \in 1..Len(order) : order[n] = c
    IN  IF b = <<>> THEN FALSE
        ELSE IF a = <<>> THEN TRUE
        ELSE IF Head(a) = Head(b) THEN TextLess(Tail(a), Tail(b))
        ELSE rank(Head(a)) < rank(Head(b))

\* difflib.get_close_matches(word, possibilities, n=1, cutoff=0.6): the
\* possibility of the highest ratio 2*M/T that is >= 0.6 (ties: the greater
\* text), None when there is none
get_close_matches(word, possibilities) ==
    LET pick(m) ==
            LET t(i) == Len(possibilities[i]) + Len(word)
                cand == {i \in 1..Len(possibilities) : 10 * m[i] >= 3 * t(i)}
                better(i, j) == \/ m[i] * t(j) > m[j] * t(i)
                                \/ /\ m[i] * t(j) = m[j] * t(i)
                                   /\ ~TextLess(possibilities[i], possibilities[j])
            IN  IF cand = {} THEN None
                ELSE possibilities[CHOOSE i \in cand : \A j \in cand : better(i, j)]
    IN  pick([i \in 1..Len(possibilities) |-> Matches(possibilities[i], word)])

\* locals()[key] = value inside a function body: the dict is a snapshot of
\* the frame, so the function's own variables keep their values
locals_setitem(frame_vars, key, value) == frame_vars

\* lines 319-334 for one role: each keyword in turn is fuzzy-matched against
\* the lower-cased column names until locals().get(key) is not None
RECURSIVE FuzzyRole(_, _, _, _)
FuzzyRole(frame_vars, key, keywords, columns) ==
    LET written(lowered, low_match) ==
            IF low_match = None THEN frame_vars
            ELSE locals_setitem(frame_vars, key,
                    columns[CHOOSE i \in 1..Len(columns) :
                               /\ lowered[i] = low_match
                               /\ \A j \in 1..(i - 1) : lowered[j] # low_match])
        matched(lowered) ==
            written(lowered, get_close_matches(Head(keywords), lowered))
    IN  IF keywords = <<>> \/ frame_vars[key] # None THEN frame_vars
        ELSE FuzzyRole(matched([i \in 1..Len(columns) |-> lower(columns[i])]),
                       key, Tail(keywords), columns)

\* _detect_columns(df): the four roles and the list of the missing ones;
\* the call raises KeyError exactly when the list is not empty
detect_columns(frame) ==
    LET cols == frame.columns
        roles == <<"date_col", "tips_col", "hours_col", "name_col">>
        unresolved(v) == SelectSeq(roles, LAMBDA r : v[r] = None)
        \* lines 294-297: keyword search
        step1 == [date_col |-> find_by_keywords(cols, date_kw),
                  tips_col |-> find_by_keywords(cols, tips_kw),
                  hours_col |-> find_by_keywords(cols, hours_kw),
                  name_col |-> find_by_keywords(cols, name_kw)]
        \* lines 300-307: the first column whose values parse as dates
        step2(v, sniffed) ==
            IF v.date_col = None /\ sniffed # {}
            THEN [v EXCEPT !.date_col =
                     cols[CHOOSE i \in sniffed : \A j \in sniffed : i <= j]]
            ELSE v
        \* lines 317-334: fuzzy matching of the roles still missing
        step3(v) ==
            IF unresolved(v) = <<>> THEN v
            ELSE FuzzyRole(FuzzyRole(FuzzyRole(FuzzyRole(v,
                   "date_col", date_kw, cols), "tips_col", tips_kw, cols),
                   "hours_col", hours_kw, cols), "name_col", name_kw, cols)
        \* lines 336-352
        result(v) == [date_col |-> v.date_col, tips_col |-> v.tips_col,
                      hours_col |-> v.hours_col, name_col |-> v.name_col,
                      missing |-> unresolved(v)]
    IN  result(step3(step2(step1,
                {i \in 1..Len(cols) : step1.date_col = None /\ SniffsAsDate(frame, i)})))

(***************************************************************************)
(* Clock aggregation: process_clock_csv.                                   *)
(***************************************************************************)
TotalDailyHours == <<"T","o","t","a","l"," ","D","a","i","l","y"," ","H","o","u","r","s">>
DefaultDateFormat == <<"%","d","-","%","b","-","%","y">>

\* the keys in descending order
RECURSIVE SortedKeysDescending(_)
SortedKeysDescending(keys) ==
    IF keys = {} THEN <<>>
    ELSE LET most == CHOOSE k \in keys : \A o \in keys :
                         \/ k = o
                         \/ StrLess(o[1], k[1])
                         \/ (k[1] = o[1] /\ o[2] < k[2])
         IN  <<most>> \o SortedKeysDescending(keys \ {most})

\* the rows of a set of (employee, day) keys in ascending (employee, day) order
RECURSIVE SortedKeys(_)
SortedKeys(keys) ==
    IF keys = {} THEN <<>>
    ELSE LET least == CHOOSE k \in keys : \A o \in keys :
                         \/ k = o
                         \/ StrLess(k[1], o[1])
                         \/ (k[1] = o[1] /\ k[2] < o[2])
         IN  <<least>> \o SortedKeys(keys \ {least})

\* only the first of the absent columns
first_missing_column(frame, required_cols) ==
    LET absent == SelectSeq(required_cols, LAMBDA c : ~HasCol(frame, c))
    IN  IF absent = <<>> THEN <<>> ELSE <<Head(absent)>>

\* clock.py line 36 and tips.py line 251: the required columns that the
\* table does not have, in the order in which they are required
missing_columns(frame, required_cols) ==
    SelectSeq(required_cols, LAMBDA c : ~HasCol(frame, c))

\* a date column in which only texts are dates
to_datetime_of_texts(c, date_format) ==
    IF IsStr(c) THEN to_datetime(c.str, date_format) ELSE 0

\* clock.py lines 49-58, pd.to_datetime(errors="coerce") on one cell: a text
\* is parsed; a date that is a datetime64 value already, a number of days
\* here, is returned as it is; 0 is NaT
to_datetime_coerce(c, date_format) ==
    IF IsStr(c) THEN to_datetime(c.str, date_format)
    ELSE IF IsNum(c) THEN c.num ELSE 0

\* process_clock_csv(df, employee_col, date_col, hours_col, date_format):
\* [raised |-> "KeyError", missing |-> ...] or [ok |-> the daily hours table]
process_clock_csv(frame, employee_col, d_col, h_col, date_format) ==
    LET required == <<employee_col, d_col, h_col>>
        missing == missing_columns(frame, required)
    IN  IF missing # <<>> THEN [raised |-> "KeyError", missing |-> missing]
        ELSE LET e == ColIdx(frame, employee_col)
                 d == ColIdx(frame, d_col)
                 h == ColIdx(frame, h_col)
                 day(r) == to_datetime_coerce(r[d], date_format)
                 valid(r) == r[e] # NaN /\ r[d] # NaN /\ IsNum(r[h]) /\ day(r) # 0
                 df_shifts == SelectSeq(frame.rows, valid)
                 keys == {<<df_shifts[i][e].str, day(df_shifts[i])>> : i \in 1..Len(df_shifts)}
                 total(k) == SumSeq([i \in 1..Len(df_shifts) |->
                                IF <<df_shifts[i][e].str, day(df_shifts[i])>> = k
                                THEN df_shifts[i][h].num ELSE 0])
                 sorted == SortedKeys(keys)
             IN  [ok |-> [columns |-> <<employee_col, d_col, TotalDailyHours>>,
                          rows |-> [i \in 1..Len(sorted) |->
                                      <<Str(sorted[i][1]), Num(sorted[i][2]),
                                        Num(total(sorted[i]))>>]]]

(***************************************************************************)
(* Reconciliation and distribution: distribute_daily_tips_df.              *)
(***************************************************************************)
Employee == <<"E","m","p","l","o","y","e","e">>
Date == <<"D","a","t","e">>
Hours == <<"H","o","u","r","s">>
NoFrame == [none |-> TRUE]
EmptyList == [list |-> <<>>]

\* the unit of money: amounts are integers counting 1/Scale, and Scale is a
\* multiple of every total of hours a model table can have
Scale ==
    LET RECURSIVE gcd(_, _), lcm(_)
        gcd(a, b) == IF b = 0 THEN a ELSE gcd(b, a % b)
        lcm(n) == IF n = 1 THEN 1 ELSE (lcm(n - 1) * n) \div gcd(lcm(n - 1), n)
    IN  lcm(IF 2 * MaxRows > 10 THEN 2 * MaxRows ELSE 10)

\* a concatenation that keeps the first table of the list only
concat_head_only(source) ==
    IF "list" \in DOMAIN source THEN Head(source.list) ELSE source

\* _concat_if_needed: pd.concat(list, ignore_index=True), the rows of the
\* tables under the union of their columns in the order of first appearance,
\* NaN where a table lacks a column; or the table itself
RECURSIVE concat_if_needed(_)
concat_if_needed(source) ==
    IF "list" \in DOMAIN source
    THEN IF Len(source.list) = 1 THEN Head(source.list)
         ELSE LET columns(first, rest) ==
                      first.columns
                      \o SelectSeq(rest.columns, LAMBDA c : ~HasCol(first, c))
                  aligned(frame, cols) ==
                      [r \in 1..Len(frame.rows) |->
                         [k \in 1..Len(cols) |->
                            IF HasCol(frame, cols[k])
                            THEN frame.rows[r][ColIdx(frame, cols[k])] ELSE NaN]]
                  joined(first, rest) ==
                      [columns |-> columns(first, rest),
                       rows |-> aligned(first, columns(first, rest))
                                \o aligned(rest, columns(first, rest))]
              IN  joined(Head(source.list),
                         concat_if_needed([list |-> Tail(source.list)]))
    ELSE source

\* _normalize_df: KeyError when a required column is absent, ValueError when
\* a date text does not parse; dates become day numbers (0 is NaT), hours and
\* tips numbers, what is not numeric 0.0
normalize_df(frame, d_col, t_col, h_col, n_col) ==
    LET required == <<d_col, t_col, h_col, n_col>>
    IN  IF \E i \in 1..4 : ~HasCol(frame, required[i])
        THEN [raised |-> "KeyError", missing |-> missing_columns(frame, required)]
        ELSE LET d == ColIdx(frame, d_col)
                 t == ColIdx(frame, t_col)
                 h == ColIdx(frame, h_col)
                 day(c) == IF c = NaN THEN 0 ELSE
                           IF IsStr(c) THEN to_datetime(c.str, None) ELSE c.num
                 bad(c) == IsStr(c) /\ to_datetime(c.str, None) = 0
                 numeric(c) == IF IsNum(c) THEN c ELSE Num(0)
                 cell(r, i) == IF i = h \/ i = t THEN numeric(r[i])
                               ELSE IF i = d THEN Num(day(r[i])) ELSE r[i]
             IN  IF \E r \in 1..Len(frame.rows) : bad(frame.rows[r][d])
                 THEN [raised |-> "ValueError"]
                 ELSE [ok |-> [columns |-> frame.columns,
                               rows |-> [r \in 1..Len(frame.rows) |->
                                           [i \in 1..Len(frame.columns) |->
                                              cell(frame.rows[r], i)]]]]

\* DataFrame.merge(right, left_on=[df[date_col].dt.date, name_col],
\* right_on=["Date", "Employee"], how="left"): KeyError when a key column is
\* absent; ValueError when the date keys cannot be compared (Python dates on
\* the left, datetime64 on the right), which pandas checks unless exactly one
\* side has no rows; else every left row, the right columns added to it
merge(left, right, d_col, n_col) ==
    IF ~HasCol(right, Date) \/ ~HasCol(right, Employee) \/ ~HasCol(left, n_col)
    THEN [raised |-> "KeyError"]
    ELSE IF (Len(left.rows) = 0) = (Len(right.rows) = 0)
    THEN [raised |-> "ValueError"]
    ELSE LET shared == IF n_col = Employee THEN {Employee} ELSE {}
             kept == SelectSeq([i \in 1..Len(right.columns) |-> i],
                               LAMBDA i : right.columns[i] \notin shared)
             clash(c, other) == c \notin shared /\ HasCol(other, c)
             lname(c) == IF clash(c, right) THEN c \o <<"_", "x">> ELSE c
             rname(c) == IF clash(c, left) THEN c \o <<"_", "y">> ELSE c
             rd == ColIdx(right, Date)
             re == ColIdx(right, Employee)
             ld == ColIdx(left, d_col)
             ln == ColIdx(left, n_col)
             match(l) == {r \in 1..Len(right.rows) :
                            /\ right.rows[r][rd] = l[ld]
                            /\ right.rows[r][re] = l[ln]}
             added(l) == [k \in 1..Len(kept) |->
                            IF match(l) = {} THEN NaN
                            ELSE right.rows[CHOOSE r \in match(l) : TRUE][kept[k]]]
         IN  [ok |-> [columns |-> [i \in 1..Len(left.columns) |-> lname(left.columns[i])]
                                  \o [k \in 1..Len(kept) |-> rname(right.columns[kept[k]])],
                      rows |-> [r \in 1..Len(left.rows) |->
                                  left.rows[r] \o added(left.rows[r])]]]

\* an except branch that gives up the hours of the tips table: df[hours_col] = 0.0
merge_clock_zero_fallback(frame, d_col, n_col, h_col, clock, c_emp, c_date, c_hours) ==
    [df |-> [frame EXCEPT !.rows = [r \in 1..Len(frame.rows) |->
                [frame.rows[r] EXCEPT ![ColIdx(frame, h_col)] = Num(0)]]],
     warning |-> "merge"]

\* lines 422-444: the table after the try block and the call whose exception
\* the except branch logged ("none": no exception).  An exception leaves df
\* as the last assignment made it
merge_clock(frame, d_col, n_col, h_col, clock, c_emp, c_date, c_hours) ==
    LET processed_clock == process_clock_csv(clock, c_emp, c_date, c_hours,
                                             DefaultDateFormat)
        merged == merge(frame, processed_clock.ok, d_col, n_col)
        m == merged.ok
        filled == [m EXCEPT !.rows = [r \in 1..Len(m.rows) |->
                     [m.rows[r] EXCEPT ![ColIdx(m, h_col)] =
                        IF m.rows[r][ColIdx(m, Hours)] # NaN
                        THEN m.rows[r][ColIdx(m, Hours)] ELSE @]]]
        keep == SelectSeq([i \in 1..Len(m.columns) |-> i],
                          LAMBDA i : m.columns[i] \notin {Date, Employee, Hours})
        dropped == [columns |-> [k \in 1..Len(keep) |-> filled.columns[keep[k]]],
                    rows |-> [r \in 1..Len(filled.rows) |->
                                [k \in 1..Len(keep) |-> filled.rows[r][keep[k]]]]]
    IN  IF "raised" \in DOMAIN processed_clock
        THEN [df |-> frame, warning |-> "process_clock_csv"]
        ELSE IF "raised" \in DOMAIN merged THEN [df |-> frame, warning |-> "merge"]
        ELSE IF ~HasCol(m, Hours) \/ ~HasCol(m, h_col)
        THEN [df |-> m, warning |-> "fillna"]
        ELSE [df |-> dropped, warning |-> "none"]

EmployeeName == <<"E","m","p","l","o","y","e","e"," ","N","a","m","e">>
TotalTipShare == <<"T","o","t","a","l"," ","T","i","p"," ","S","h","a","r","e">>

\* a groupby that counts the rows of a key where the code sums their values
groupby_count(rows, key, value, k) ==
    Cardinality({r \in 1..Len(rows) : rows[r][key] = k})

\* df.groupby(key)[value].sum() at the key k: the sum of the value column
\* over the rows whose key column is k
groupby_sum(rows, key, value, k) ==
    SumSeq([r \in 1..Len(rows) |-> IF rows[r][key] = k THEN rows[r][value].num ELSE 0])

\* lines 374-410, the clock-only mode: [raised |-> type] or [ok |-> summary]
clock_only(clock, c_emp, c_date, c_hours) ==
    LET pick(given, names) ==
            IF given # None THEN given
            ELSE LET hit(i) == \E k \in 1..Len(names) : lower(clock.columns[i]) = names[k]
                 IN  IF \E i \in 1..Len(clock.columns) : hit(i)
                     THEN clock.columns[CHOOSE i \in 1..Len(clock.columns) :
                                           hit(i) /\ \A j \in 1..(i - 1) : ~hit(j)]
                     ELSE None
        e_col == pick(c_emp, <<lower(Employee), <<"n","a","m","e">>, <<"s","t","a","f","f">> >>)
        d_col == pick(c_date, <<lower(Date), <<"s","h","i","f","t"," ","d","a","t","e">>,
                                <<"c","l","o","c","k"," ","i","n"," ","d","a","t","e">> >>)
        h_col == pick(c_hours, <<lower(Hours),
                                 <<"e","l","a","p","s","e","d"," ","h","o","u","r","s">>,
                                 <<"h","r","s">> >>)
        \* df.rename(columns={e_col: 'Employee', d_col: 'Date', h_col: 'Hours'})
        renamed(c) == IF c = h_col THEN Hours ELSE IF c = d_col THEN Date
                      ELSE IF c = e_col THEN Employee ELSE c
        columns == [i \in 1..Len(clock.columns) |-> renamed(clock.columns[i])]
        count(c) == Cardinality({i \in 1..Len(columns) : columns[i] = c})
        at(c) == CHOOSE i \in 1..Len(columns) : columns[i] = c
        rows == clock.rows
        bad(c) == IsStr(c) /\ to_datetime(c.str, None) = 0
        \* pd.to_numeric(df['Hours'], errors='coerce').fillna(0.0)
        numeric == [r \in 1..Len(rows) |->
                      [rows[r] EXCEPT ![at(Hours)] = IF IsNum(@) THEN @ ELSE Num(0)]]
        names == {rows[r][at(Employee)] : r \in 1..Len(rows)} \ {NaN}
        total(n) == groupby_sum(numeric, at(Employee), at(Hours), n)
        sorted == SortedKeys({<<n.str, 0>> : n \in names})
    IN  IF clock = NoFrame THEN [raised |-> "ValueError"]
        ELSE IF e_col = None \/ d_col = None \/ h_col = None THEN [raised |-> "ValueError"]
        ELSE IF count(Date) = 0 THEN [raised |-> "KeyError"]
        ELSE IF count(Date) > 1 \/ \E r \in 1..Len(rows) : bad(rows[r][at(Date)])
             THEN [raised |-> "ValueError"]
        ELSE IF count(Hours) = 0 THEN [raised |-> "KeyError"]
        ELSE IF count(Hours) > 1 THEN [raised |-> "TypeError"]
        ELSE IF count(Employee) = 0 THEN [raised |-> "KeyError"]
        ELSE IF count(Employee) > 1 THEN [raised |-> "ValueError"]
        ELSE [ok |-> [columns |-> <<EmployeeName, TotalTipShare>>,
                      rows |-> [i \in 1..Len(sorted) |->
                                  <<Str(sorted[i][1]),
                                    Num(Scale * total(Str(sorted[i][1])))>>]]]

\* an assignment that forgets the running total: final_tip_distribution[name] = tip
dict_set(dict, name, tip) ==
    IF \E i \in 1..Len(dict) : dict[i][1] = name
    THEN [i \in 1..Len(dict) |-> IF dict[i][1] = name THEN <<name, tip>> ELSE dict[i]]
    ELSE Append(dict, <<name, tip>>)

\* final_tip_distribution[name] = final_tip_distribution.get(name, 0.0) + tip
dict_add(dict, name, tip) ==
    IF \E i \in 1..Len(dict) : dict[i][1] = name
    THEN [i \in 1..Len(dict) |->
            IF dict[i][1] = name THEN <<name, dict[i][2] + tip>> ELSE dict[i]]
    ELSE Append(dict, <<name, tip>>)

RECURSIVE allocate_rows(_, _, _, _, _, _)

\* the share computed with a floor division: employee_hours // day_total_staff_hours
allocate_rows_floor_ratio(day_rows, n, h, day_total_tips, day_total_staff_hours, dict) ==
    IF day_rows = <<>> THEN dict
    ELSE LET row == Head(day_rows)
             employee_hours == row[h].num
             employee_daily_tip ==
                 day_total_tips * (employee_hours \div day_total_staff_hours) * Scale
         IN  allocate_rows(Tail(day_rows), n, h, day_total_tips, day_total_staff_hours,
                           IF employee_hours <= 0 THEN dict
                           ELSE dict_add(dict, row[n], employee_daily_tip))

\* lines 456-463: the rows of one day, in table order, added to the dict
allocate_rows(day_rows, n, h, day_total_tips, day_total_staff_hours, dict) ==
    IF day_rows = <<>> THEN dict
    ELSE LET row == Head(day_rows)
             employee_hours == row[h].num
             \* day_total_tips * (employee_hours / day_total_staff_hours)
             employee_daily_tip ==
                 (day_total_tips * employee_hours * Scale) \div day_total_staff_hours
         IN  allocate_rows(Tail(day_rows), n, h, day_total_tips, day_total_staff_hours,
                           IF employee_hours <= 0 THEN dict
                           ELSE dict_add(dict, row[n], employee_daily_tip))

\* the loop body without the test day_total_tips == 0 of line 453
distribute_day_tips_unchecked(frame, d_col, t_col, h_col, n_col, date, dict) ==
    LET d == ColIdx(frame, d_col)
        t == ColIdx(frame, t_col)
        h == ColIdx(frame, h_col)
        n == ColIdx(frame, n_col)
        day_data == SelectSeq(frame.rows, LAMBDA r : r[d] = Num(date))
        day_total_tips == SumSeq([i \in 1..Len(day_data) |-> day_data[i][t].num])
        day_total_staff_hours == SumSeq([i \in 1..Len(day_data) |-> day_data[i][h].num])
    IN  IF day_total_staff_hours <= 0 THEN dict
        ELSE allocate_rows(day_data, n, h, day_total_tips, day_total_staff_hours, dict)

\* lines 449-463 for one date of daily_groups: the dict after it
distribute_day(frame, d_col, t_col, h_col, n_col, date, dict) ==
    LET d == ColIdx(frame, d_col)
        t == ColIdx(frame, t_col)
        h == ColIdx(frame, h_col)
        n == ColIdx(frame, n_col)
        day_data == SelectSeq(frame.rows, LAMBDA r : r[d] = Num(date))
        day_total_tips == SumSeq([i \in 1..Len(day_data) |-> day_data[i][t].num])
        day_total_staff_hours == SumSeq([i \in 1..Len(day_data) |-> day_data[i][h].num])
    IN  IF day_total_staff_hours <= 0 \/ day_total_tips = 0 THEN dict
        ELSE allocate_rows(day_data, n, h, day_total_tips, day_total_staff_hours, dict)

\* df.groupby(df[date_col].dt.date): the distinct dates, ascending, NaT left out
groupby_dates(frame, d_col) ==
    LET d == ColIdx(frame, d_col)
        RECURSIVE asc(_)
        asc(days) == IF days = {} THEN <<>>
                     ELSE LET least == CHOOSE x \in days : \A y \in days : x <= y
                          IN  <<least>> \o asc(days \ {least})
    IN  asc({frame.rows[r][d].num : r \in 1..Len(frame.rows)} \ {0})

Raise(type) ==
    /\ pc' = "raised"
    /\ exc' = type

\* distribute_daily_tips_df, lines 374-410: no tips source
ClockOnly ==
    /\ pc = "call"
    /\ df_or_list \in {NoFrame, EmptyList}
    /\ \E r \in {clock_only(clock_df, clock_employee_col, clock_date_col,
                              clock_hours_col)} :
           IF "raised" \in DOMAIN r
           THEN Raise(r.raised) /\ UNCHANGED <<final_tip_distribution, export_df>>
           ELSE /\ pc' = "returned"
                /\ final_tip_distribution' = <<>>
                /\ export_df' = r.ok
                /\ exc' = exc
    /\ UNCHANGED <<df_or_list, date_col, tips_col, hours_col, name_col, clock_df,
                   clock_employee_col, clock_date_col, clock_hours_col, df,
                   daily_groups, warning, args, ret>>

\* a resolution that detects the absent roles only and keeps the given ones
resolve_absent_roles(table, d_col, t_col, h_col, n_col) ==
    LET filled(detected) ==
            [date_col |-> IF d_col # None THEN d_col ELSE detected.date_col,
             tips_col |-> IF t_col # None THEN t_col ELSE detected.tips_col,
             hours_col |-> IF h_col # None THEN h_col ELSE detected.hours_col,
             name_col |-> IF n_col # None THEN n_col ELSE detected.name_col,
             missing |-> detected.missing]
    IN  IF d_col # None /\ t_col # None /\ h_col # None /\ n_col # None
        THEN [date_col |-> d_col, tips_col |-> t_col, hours_col |-> h_col,
              name_col |-> n_col, missing |-> <<>>]
        ELSE filled(detect_columns(table))

\* lines 414-417: the four roles of the call, with the list of the roles
\* that auto-detection could not find; a role is given when it is neither
\* None nor the empty text
resolve_roles(table, d_col, t_col, h_col, n_col) ==
    IF d_col # None /\ t_col # None /\ h_col # None /\ n_col # None
    THEN [date_col |-> d_col, tips_col |-> t_col, hours_col |-> h_col,
          name_col |-> n_col, missing |-> <<>>]
    ELSE detect_columns(table)

\* distribute_daily_tips_df, lines 412-419: concatenate, detect, normalize
Prepare ==
    /\ pc = "call"
    /\ df_or_list \notin {NoFrame, EmptyList}
    /\ \E table \in {concat_if_needed(df_or_list)} :
       \E roles \in {resolve_roles(table, date_col, tips_col, hours_col, name_col)} :
          /\ IF roles.missing # <<>>
             THEN Raise("KeyError") /\ df' = table
                  /\ UNCHANGED <<date_col, tips_col, hours_col, name_col>>
             ELSE /\ date_col' = roles.date_col
                  /\ tips_col' = roles.tips_col
                  /\ hours_col' = roles.hours_col
                  /\ name_col' = roles.name_col
                  /\ \E normal \in {normalize_df(table, roles.date_col, roles.tips_col,
                                                  roles.hours_col, roles.name_col)} :
                        IF "raised" \in DOMAIN normal
                        THEN Raise(normal.raised) /\ df' = table
                        ELSE pc' = "normalized" /\ df' = normal.ok /\ exc' = exc
    /\ UNCHANGED <<df_or_list, clock_df, clock_employee_col, clock_date_col,
                   clock_hours_col, daily_groups, final_tip_distribution,
                   export_df, warning, args, ret>>

\* distribute_daily_tips_df, lines 421-447: the clock merge in its try block,
\* then the empty dict and the grouping by date
MergeClock ==
    /\ pc = "normalized"
    /\ \E after \in {IF clock_df = NoFrame THEN [df |-> df, warning |-> "none"]
                     ELSE merge_clock(df, date_col, name_col, hours_col, clock_df,
                                      clock_employee_col, clock_date_col,
                                      clock_hours_col)} :
           /\ df' = after.df
           /\ warning' = after.warning
           /\ final_tip_distribution' = <<>>
           /\ IF HasCol(after.df, date_col)
              THEN /\ pc' = "loop"
                   /\ daily_groups' = groupby_dates(after.df, date_col)
                   /\ exc' = exc
              ELSE Raise("KeyError") /\ daily_groups' = daily_groups
    /\ UNCHANGED <<df_or_list, date_col, tips_col, hours_col, name_col, clock_df,
                   clock_employee_col, clock_date_col, clock_hours_col, export_df,
                   args, ret>>

\* distribute_daily_tips_df, lines 449-463: one iteration of the loop over
\* the dates
DistributeDay ==
    /\ pc = "loop"
    /\ daily_groups # <<>>
    /\ IF HasCol(df, tips_col) /\ HasCol(df, hours_col) /\ HasCol(df, name_col)
       THEN /\ final_tip_distribution' =
                  distribute_day(df, date_col, tips_col, hours_col, name_col,
                                 Head(daily_groups), final_tip_distribution)
            /\ daily_groups' = Tail(daily_groups)
            /\ UNCHANGED <<pc, exc>>
       ELSE Raise("KeyError") /\ UNCHANGED <<final_tip_distribution, daily_groups>>
    /\ UNCHANGED <<df_or_list, date_col, tips_col, hours_col, name_col, clock_df,
                   clock_employee_col, clock_date_col, clock_hours_col, df,
                   export_df, warning, args, ret>>

\* distribute_daily_tips_df, lines 465-466: the export table and the return
Return ==
    /\ pc = "loop"
    /\ daily_groups = <<>>
    /\ pc' = "returned"
    /\ export_df' = [columns |-> <<EmployeeName, TotalTipShare>>,
                     rows |-> [i \in 1..Len(final_tip_distribution) |->
                                 <<final_tip_distribution[i][1],
                                   Num(final_tip_distribution[i][2])>>]]
    /\ UNCHANGED <<df_or_list, date_col, tips_col, hours_col, name_col, clock_df,
                   clock_employee_col, clock_date_col, clock_hours_col, df,
                   daily_groups, final_tip_distribution, exc, warning, args, ret>>

(***************************************************************************)
(* The calls of distribute_daily_tips_df that the model makes.             *)
(***************************************************************************)
\* the column layout of the tables in tests/test_tips.py
TestColumns == << <<"S","h","i","f","t"," ","D","a","t","e">>,
                  <<"D","a","i","l","y"," ","T","i","p"," ","T","o","t","a","l">>,
                  <<"H","o","u","r","s"," ","W","o","r","k","e","d">>,
                  EmployeeName >>
\* the column layout _extract_from_transposed_sales_report produces
TransposedColumns == <<Employee, Date, Hours, <<"T","i","p","s">> >>
\* the column layout of test_auto_detect_columns
AutoColumns == << <<"W","o","r","k"," ","D","a","t","e">>,
                  <<"G","r","a","t","u","i","t","i","e","s">>,
                  <<"W","o","r","k","e","d"," ","H","r","s">>,
                  <<"S","t","a","f","f">> >>

TipsRow(d, t, h, n) == <<Str(d), Num(t), Num(h), Str(n)>>

\* every table in the test layout of at most MaxRows rows; a row's tips and
\* hours are one of five pairs: an ordinary row, a row without tips, a row
\* without hours, a row of negative hours and a row of negative tips
TipsTables ==
    LET rows == {TipsRow(d, p[1], p[2], n) :
                    d \in {"2025-11-01", "2025-11-02"},
                    p \in {<<4, 2>>, <<0, 1>>, <<4, 0>>, <<0, -1>>, <<-4, 2>>},
                    n \in {"Alice", "Bob"}}
    IN  {[columns |-> TestColumns, rows |-> r] :
            r \in UNION {[1..k -> rows] : k \in 0..MaxRows}}

\* tables and lists of tables taken from the tests, and malformed ones
ScenarioSources ==
    { [columns |-> TestColumns,
       rows |-> << TipsRow("2025-11-01", 100, 5, "Alice"), TipsRow("2025-11-01", 0, 5, "Bob"),
                   TipsRow("2025-11-02", 60, 4, "Alice"), TipsRow("2025-11-02", 0, 6, "Bob") >>],
      [columns |-> AutoColumns,
       rows |-> << TipsRow("2025-11-01", 50, 3, "Gina"), TipsRow("2025-11-01", 0, 5, "Hank") >>],
      [columns |-> TestColumns,
       rows |-> << TipsRow("2025-11-01", 4, 2, "Alice"), TipsRow("bad", 4, 2, "Bob") >>],
      [columns |-> TestColumns,
       rows |-> << <<Str("2025-11-01"), Str("n/a"), Num(2), Str("Alice")>>,
                   <<Str("2025-11-01"), Num(4), NaN, Str("Bob")>>,
                   <<NaN, Num(4), Num(2), Str("Bob")>> >>],
      [columns |-> <<Date, <<"T","i","p","s">> >>,
       rows |-> << <<Str("2025-11-01"), Num(4)>> >>],
      [list |-> << [columns |-> TestColumns,
                    rows |-> << TipsRow("2025-11-01", 80, 4, "Alice"),
                                TipsRow("2025-11-01", 0, 4, "Bob") >>],
                   [columns |-> TestColumns,
                    rows |-> << TipsRow("2025-11-02", 40, 2, "Alice"),
                                TipsRow("2025-11-02", 0, 6, "Bob") >>] >>] }

\* lists of two tables: the tables have the same columns or different ones,
\* and an employee can have rows for one date in both tables
ListSources ==
    LET tables ==
            { [columns |-> TestColumns,
               rows |-> << TipsRow("2025-11-01", 4, 2, "Alice") >>],
              [columns |-> TestColumns,
               rows |-> << TipsRow("2025-11-01", 0, 1, "Alice"),
                           TipsRow("2025-11-02", 4, 2, "Bob") >>],
              [columns |-> TransposedColumns,
               rows |-> << <<Str("Daily Tips"), Str("2025-11-01"), Num(1), Num(4)>> >>],
              [columns |-> AutoColumns,
               rows |-> << TipsRow("2025-11-02", 4, 1, "Alice") >>] }
    IN  {[list |-> <<a, b>>] : a \in tables, b \in tables}

\* the tips tables that are tried together with a clock table
MergeSources ==
    { [columns |-> TestColumns, rows |-> <<>>],
      [columns |-> TestColumns, rows |-> << TipsRow("2025-11-01", 4, 2, "Alice") >>],
      [columns |-> TestColumns, rows |-> << TipsRow("2025-11-01", 4, 2, "Alice"),
                                            TipsRow("2025-11-01", 0, 1, "Bob") >>],
      [columns |-> TransposedColumns, rows |-> <<>>],
      [columns |-> TransposedColumns,
       rows |-> << <<Str("Daily Tips"), Str("2025-11-01"), Num(1), Num(4)>> >>] }

\* the clock tables: four column layouts, at most MaxClockRows enumerated
\* rows, and the tables of the clock-only scenario
ClockTables ==
    LET layouts == { <<Employee, Date, Hours>>,
                     <<EmployeeName,
                       <<"C","l","o","c","k"," ","I","n"," ","D","a","t","e">>,
                       <<"E","l","a","p","s","e","d"," ","H","o","u","r","s">> >>,
                     << <<"S","t","a","f","f">>,
                        <<"S","h","i","f","t"," ","D","a","t","e">>, <<"H","r","s">> >>,
                     << <<"S","t","a","f","f">>, Date,
                        <<"E","l","a","p","s","e","d"," ","H","o","u","r","s">>, Hours >> }
        cells == { <<Str("Alice"), Str("01-Nov-25"), Num(3)>>,
                   <<Str("Bob"), Str("01-Nov-25"), Num(3)>>,
                   <<Str("Alice"), Str("02-Nov-25"), Num(5)>>,
                   <<Str("Alice"), Str("2025-11-01"), Num(3)>>,
                   <<Str("Alice"), Str("bad"), Num(3)>>,
                   <<NaN, Str("01-Nov-25"), Num(3)>>,
                   <<Str("Alice"), Str("01-Nov-25"), Str("x")>> }
        row(l, c) == IF Len(l) = 4 THEN c \o <<Num(0)>> ELSE c
    IN  {[columns |-> l, rows |-> [i \in 1..Len(r) |-> row(l, r[i])]] :
            l \in layouts, r \in UNION {[1..k -> cells] : k \in 0..MaxClockRows}}
        \cup {[columns |-> <<Employee, Date, Hours>>,
               rows |-> << <<Str("Gina"), Str("2025-11-01"), Num(3)>>,
                           <<Str("Hank"), Str("2025-11-01"), Num(5)>> >>],
              [columns |-> <<Employee, Date, Hours>>,
               rows |-> << <<Str("Gina"), Str("2025-11-01"), Num(1)>>,
                           <<Str("Hank"), Str("2025-11-01"), Num(5)>>,
                           <<Str("Gina"), Str("2025-11-02"), Num(2)>> >>]}

\* the role arguments of a call: all four given, or all four None
RoleArgs(source) ==
    LET table == concat_if_needed(source)
        c == table.columns
    IN  { <<None, None, None, None>> } \cup
        (IF c = TransposedColumns THEN { <<c[2], c[4], c[3], c[1]>> }
         ELSE IF Len(c) = 4 THEN { <<c[1], c[2], c[3], c[4]>> }
         ELSE { <<c[1], c[2], Hours, Employee>> })

\* the clock column arguments of a call: the three given, or the three None
ClockArgs(clock) ==
    { <<None, None, None>> } \cup
    (IF clock = NoFrame THEN {}
     ELSE { <<clock.columns[1], clock.columns[2], clock.columns[3]>> })

\* the state at the entry of distribute_daily_tips_df called with the sources
\* s, the role arguments r, the clock table c and its column arguments a
Call(s, r, c, a) ==
    /\ pc = "call"
    /\ df_or_list = s
    /\ date_col = r[1]
    /\ tips_col = r[2]
    /\ hours_col = r[3]
    /\ name_col = r[4]
    /\ clock_df = c
    /\ clock_employee_col = a[1]
    /\ clock_date_col = a[2]
    /\ clock_hours_col = a[3]
    /\ df = NoFrame
    /\ daily_groups = <<>>
    /\ final_tip_distribution = <<>>
    /\ export_df = NoFrame
    /\ exc = "none"
    /\ warning = "none"
    /\ args = None
    /\ ret = None

\* tables with a column that is no keyword column of its role: 'Staff' comes
\* after 'Employee Name' in the first, and 'Who' has no name keyword in the second
RoleTables ==
    { [columns |-> TestColumns \o << <<"S","t","a","f","f">> >>,
       rows |-> << TipsRow("2025-11-01", 4, 2, "Alice") \o <<Str("Bob")>> >>],
      [columns |-> <<TestColumns[1], TestColumns[2], TestColumns[3], <<"W","h","o">>>>,
       rows |-> << TipsRow("2025-11-01", 4, 2, "Alice") >>] }

\* the calls on these tables: each role is given or left out, and the name
\* column that the caller gives is the last column; args keeps the roles of
\* the call
CallWithRoles(s, given) ==
    \E r \in {[i \in 1..4 |-> IF ~given[i] THEN None
                              ELSE IF i = 4 THEN s.columns[Len(s.columns)]
                              ELSE s.columns[i]]} :
        /\ pc = "call"
        /\ df_or_list = s
        /\ date_col = r[1] /\ tips_col = r[2] /\ hours_col = r[3] /\ name_col = r[4]
        /\ clock_df = NoFrame
        /\ clock_employee_col = None /\ clock_date_col = None /\ clock_hours_col = None
        /\ df = NoFrame
        /\ daily_groups = <<>>
        /\ final_tip_distribution = <<>>
        /\ export_df = NoFrame
        /\ exc = "none"
        /\ warning = "none"
        /\ args = [roles |-> r]
        /\ ret = None

Init ==
    \/ \E s \in TipsTables :
          Call(s, <<TestColumns[1], TestColumns[2], TestColumns[3], TestColumns[4]>>,
               NoFrame, <<None, None, None>>)
    \/ \E s \in ScenarioSources \cup ListSources : \E r \in RoleArgs(s) :
          Call(s, r, NoFrame, <<None, None, None>>)
    \/ \E s \in MergeSources, c \in ClockTables : \E r \in RoleArgs(s), a \in ClockArgs(c) :
          Call(s, r, c, a)
    \/ \E s \in {NoFrame, EmptyList}, c \in ClockTables \cup {NoFrame} :
          \E a \in ClockArgs(c) : Call(s, <<None, None, None, None>>, c, a)
    \/ \E s \in RoleTables, given \in [1..4 -> BOOLEAN] : CallWithRoles(s, given)

Next == ClockOnly \/ Prepare \/ MergeClock \/ DistributeDay \/ Return

Spec == Init /\ [][Next]_vars

(***************************************************************************)
(* The helpers called on their own: each specification below calls one     *)
(* helper on arguments drawn from a bounded set.                           *)
(***************************************************************************)
MaxCols == 3        \* columns of an enumerated table of _detect_columns
MaxGridRows == 2    \* rows of an enumerated raw grid, beside the blank rows above them

\* the state at the entry of the helper named by `at`, called with a
HelperCall(at, a) ==
    /\ pc = at
    /\ args = a
    /\ ret = None
    /\ df_or_list = NoFrame
    /\ date_col = None /\ tips_col = None /\ hours_col = None /\ name_col = None
    /\ clock_df = NoFrame
    /\ clock_employee_col = None /\ clock_date_col = None /\ clock_hours_col = None
    /\ df = NoFrame
    /\ daily_groups = <<>>
    /\ final_tip_distribution = <<>>
    /\ export_df = NoFrame
    /\ exc = "none"
    /\ warning = "none"

\* the tables of _detect_columns: at most MaxCols different columns of six
\* names, with no row, with a row of names, or with a row of a name followed
\* by dates; and the tables of the tests
\* column layouts in which a role has two columns, the first of them named
\* by a later keyword of the role than the second
TwiceNamed ==
    { << <<"S","t","a","f","f">>, EmployeeName, <<"H","r","s">>, <<"H","o","u","r","s"," ","W","o","r","k","e","d">>, <<"G","r","a","t","u","i","t","i","e","s">>,
         <<"D","a","i","l","y"," ","T","i","p"," ","T","o","t","a","l">>, <<"D","a","y">>, <<"S","h","i","f","t"," ","D","a","t","e">> >>,
      << <<"E","m","p","l","o","y","e","e"," ","N","a","m","e">>, <<"S","t","a","f","f">>, <<"H","o","u","r","s"," ","W","o","r","k","e","d">>, <<"H","r","s">>, <<"D","a","i","l","y"," ","T","i","p"," ","T","o","t","a","l">>,
         <<"G","r","a","t","u","i","t","i","e","s">>, <<"S","h","i","f","t"," ","D","a","t","e">>, <<"D","a","y">> >>,
      << <<"S","t","a","f","f">>, EmployeeName, <<"D","a","y">>, <<"S","h","i","f","t"," ","D","a","t","e">> >>,
      << <<"G","r","a","t","u","i","t","i","e","s">>, <<"S","t","a","f","f">>, EmployeeName >> }

DetectTables ==
    LET names == { TestColumns[1], TestColumns[2], TestColumns[3], TestColumns[4],
                   <<"T","p","i","s">>, <<"W","h","o">> }
        headers == {c \in UNION {[1..k -> names] : k \in 0..MaxCols} :
                       \A i, j \in 1..Len(c) : c[i] = c[j] => i = j}
        rows(c) == { <<>>,
                     << [i \in 1..Len(c) |-> Str("Alice")] >>,
                     << [i \in 1..Len(c) |->
                           IF i = 1 THEN Str("Alice") ELSE Str("2025-11-01")] >> }
    IN  UNION {{[columns |-> c, rows |-> r] : r \in rows(c)} : c \in headers}
        \cup {t \in ScenarioSources : "columns" \in DOMAIN t}
        \cup {[columns |-> c, rows |-> <<>>] : c \in TwiceNamed}

InitDetect == \E table \in DetectTables : HelperCall("detect_columns", table)

\* _detect_columns(df), lines 277-352
DetectColumns ==
    /\ pc = "detect_columns"
    /\ \E r \in {detect_columns(args)} :
          IF r.missing # <<>>
          THEN /\ pc' = "raised"
               /\ ret' = [raised |-> "KeyError", missing |-> r.missing]
          ELSE /\ pc' = "returned"
               /\ ret' = <<r.date_col, r.tips_col, r.hours_col, r.name_col>>
    /\ UNCHANGED <<df_or_list, date_col, tips_col, hours_col, name_col, clock_df,
                   clock_employee_col, clock_date_col, clock_hours_col, df,
                   daily_groups, final_tip_distribution, export_df, exc, warning, args>>

NextDetect == DetectColumns

SpecDetect == InitDetect /\ [][NextDetect]_vars

\* the raw grids of read_file_to_df: 0, 1, ScanWindow - 1 or ScanWindow blank
\* rows, then at most MaxGridRows rows of a width of three or of five cells
RawGrids ==
    LET text(t) == Str(t)
        rows3 == { <<NaN, NaN, NaN>>,
                   <<text(Date), NaN, text(<<" ">>)>>,
                   <<text(<<" ">> \o Date \o <<" ">>), text(<<"N","a","m","e">>), NaN>>,
                   <<text(<<"S","A","L","E","S">>), text(<<"x">>), NaN>>,
                   <<text(<<"T","o","t","a","l">>), text(Date), text(<<"N","a","m","e">>)>>,
                   <<text(Date), text(<<"T","i","p","s">>), text(Hours)>> }
        rows5 == { <<text(Date), NaN, NaN, NaN, NaN>>,
                   <<text(Date), text(<<"N","a","m","e">>), NaN, NaN, NaN>>,
                   <<text(<<"S","a","l","e","s">>), text(Date), text(<<"N","a","m","e">>), NaN, NaN>>,
                   <<text(<<"S","a","l","e","s">>), text(Date), text(<<"N","a","m","e">>), text(<<"T","i","p","s">>), NaN>> }
        blank(w) == [i \in 1..w |-> NaN]
        above == {0, 1, ScanWindow - 1, ScanWindow}
        grids(w, rows) ==
            {[i \in 1..k |-> blank(w)] \o r :
                k \in above, r \in UNION {[1..n -> rows] : n \in 0..MaxGridRows}}
    IN  grids(3, rows3) \cup grids(5, rows5)

InitHeader ==
    \E raw \in RawGrids, filename \in {<<"d","a","t","a",".","c","s","v">>, <<"T","i","p","s",".","X","L","S","X">>, <<"n","o","t","e","s",".","t","x","t">>} :
        HelperCall("read_file_to_df", [raw |-> raw, filename |-> filename])

\* read_file_to_df(file_bytes, filename), lines 59-99
ReadFileToDf ==
    /\ pc = "read_file_to_df"
    /\ \E r \in {read_file_to_df(args.raw, args.filename)} :
          /\ ret' = r
          /\ pc' = IF "raised" \in DOMAIN r THEN "raised" ELSE "returned"
    /\ UNCHANGED <<df_or_list, date_col, tips_col, hours_col, name_col, clock_df,
                   clock_employee_col, clock_date_col, clock_hours_col, df,
                   daily_groups, final_tip_distribution, export_df, exc, warning, args>>

NextHeader == ReadFileToDf

SpecHeader == InitHeader /\ [][NextHeader]_vars

\* the file names and the column layouts is_clock_file is called with
FileNames ==
    { None, <<"c","l","o","c","k",".","c","s","v">>, <<"T","i","m","e","S","h","e","e","t",".","x","l","s","x">>, <<"N","o","v","_","C","L","O","C","K","_","s","a","l","e","s",".","c","s","v">>, <<"s","a","l","e","s",".","c","s","v">>,
      <<"T","i","p","s",".","x","l","s">>, <<"D","a","i","l","y"," ","S","a","l","e","s"," ","R","e","p","o","r","t",".","x","l","s","x">>, <<"m","u","l","t","i","p","l","e",".","c","s","v">>, <<"d","a","t","a",".","c","s","v">>,
      <<"t","i","p","s","_","t","i","m","e","s","h","e","e","t",".","c","s","v">>, <<"h","o","u","r","s",".","c","s","v">> }
Layouts ==
    { TestColumns, TransposedColumns, AutoColumns, <<>>,
      <<Employee, Date, Hours>>,
      <<EmployeeName, <<"C","l","o","c","k"," ","I","n"," ","D","a","t","e">>, <<"E","l","a","p","s","e","d"," ","H","o","u","r","s">>>>,
      <<<<"S","t","a","f","f">>, <<"S","h","i","f","t"," ","D","a","t","e">>, <<"H","r","s">>>>,
      <<<<"S","t","a","f","f">>, Date, <<"E","l","a","p","s","e","d"," ","H","o","u","r","s">>, Hours>>,
      <<Employee, Date>>,
      <<<<"W","h","o">>, <<"W","h","e","n">>, <<"A","m","o","u","n","t">>>> }

InitClassify ==
    \E columns \in Layouts, filename \in FileNames :
        HelperCall("is_clock_file",
                   [df |-> [columns |-> columns, rows |-> <<>>], filename |-> filename])

\* is_clock_file(df, filename), lines 24-41
IsClockFile ==
    /\ pc = "is_clock_file"
    /\ ret' = is_clock_file(args.df, args.filename)
    /\ pc' = "returned"
    /\ UNCHANGED <<df_or_list, date_col, tips_col, hours_col, name_col, clock_df,
                   clock_employee_col, clock_date_col, clock_hours_col, df,
                   daily_groups, final_tip_distribution, export_df, exc, warning, args>>

NextClassify == IsClockFile

SpecClassify == InitClassify /\ [][NextClassify]_vars

ClockInDate == <<"C","l","o","c","k"," ","I","n"," ","D","a","t","e">>
ElapsedHours == <<"E","l","a","p","s","e","d"," ","H","o","u","r","s">>

\* the clock tables of process_clock_csv called on its own: at most MaxRows
\* rows, two of which may share their employee and date, under the default
\* column names, under custom names and under a mix of both
ClockSheets ==
    LET layouts == { <<EmployeeName, ClockInDate, ElapsedHours>>,
                     <<<<"S","t","a","f","f">>, <<"W","o","r","k"," ","D","a","t","e">>, Hours>>,
                     <<EmployeeName, <<"W","o","r","k"," ","D","a","t","e">>, ElapsedHours>>,
                     <<<<"S","t","a","f","f">>, <<"W","o","r","k"," ","D","a","t","e">>, ElapsedHours>> }
        rows == { <<Str("Alice"), Str("01-Nov-25"), Num(3)>>,
                  <<Str("Alice"), Str("01-Nov-25"), Num(5)>>,
                  <<Str("Bob"), Str("01-Nov-25"), Num(3)>>,
                  <<Str("Alice"), Str("02-Nov-25"), Num(5)>>,
                  <<Str("Alice"), Str("2025-11-01"), Num(3)>>,
                  <<Str("Bob"), Str("bad"), Num(3)>>,
                  <<NaN, Str("01-Nov-25"), Num(3)>>,
                  <<Str("Alice"), NaN, Num(3)>>,
                  <<Str("Alice"), Str("01-Nov-25"), Str("x")>> }
    IN  {[columns |-> l, rows |-> r] :
            l \in layouts, r \in UNION {[1..k -> rows] : k \in 0..MaxRows}}

\* the tables of _normalize_df called on its own: any selection of the
\* columns of the test layout, with no row, with a row, or with a row whose
\* date does not parse
NormalizeTables ==
    LET full == { <<>>,
                  <<TipsRow("2025-11-01", 4, 2, "Alice")>>,
                  <<TipsRow("bad", 4, 2, "Alice")>> }
        selections == {s \in SUBSET (1..4) : TRUE}
        pick(seq, s) == SelectSeq([i \in 1..4 |-> IF i \in s THEN <<seq[i]>> ELSE <<>>],
                                  LAMBDA x : x # <<>>)
        only(seq, s) == [i \in 1..Len(pick(seq, s)) |-> pick(seq, s)[i][1]]
    IN  {[columns |-> only(TestColumns, s),
          rows |-> [i \in 1..Len(r) |-> only(r[i], s)]] : s \in selections, r \in full}

InitClock ==
    \/ \E sheet \in ClockSheets, date_format \in {DefaultDateFormat, None},
          cols \in { <<EmployeeName, ClockInDate, ElapsedHours>>,
                     <<<<"S","t","a","f","f">>, <<"W","o","r","k"," ","D","a","t","e">>, Hours>> } :
          HelperCall("process_clock_csv",
                     [df |-> sheet, employee_col |-> cols[1], date_col |-> cols[2],
                      hours_col |-> cols[3], date_format |-> date_format])
    \/ \E table \in NormalizeTables :
          HelperCall("normalize_df",
                     [df |-> table, date_col |-> TestColumns[1], tips_col |-> TestColumns[2],
                      hours_col |-> TestColumns[3], name_col |-> TestColumns[4]])

\* process_clock_csv(df, employee_col, date_col, hours_col, date_format)
ProcessClockCsv ==
    /\ pc = "process_clock_csv"
    /\ \E r \in {process_clock_csv(args.df, args.employee_col, args.date_col,
                                   args.hours_col, args.date_format)} :
          /\ ret' = r
          /\ pc' = IF "raised" \in DOMAIN r THEN "raised" ELSE "returned"
    /\ UNCHANGED <<df_or_list, date_col, tips_col, hours_col, name_col, clock_df,
                   clock_employee_col, clock_date_col, clock_hours_col, df,
                   daily_groups, final_tip_distribution, export_df, exc, warning, args>>

\* process_clock_csv called on the table it returned, with the total-hours
\* column as the hours column
ProcessClockCsvAgain ==
    /\ pc = "returned"
    /\ "employee_col" \in DOMAIN args
    /\ \E date_format \in {DefaultDateFormat, None} :
          /\ args' = [df |-> ret.ok, employee_col |-> args.employee_col,
                      date_col |-> args.date_col, hours_col |-> TotalDailyHours,
                      date_format |-> date_format]
          /\ \E r \in {process_clock_csv(ret.ok, args.employee_col, args.date_col,
                                         TotalDailyHours, date_format)} :
                /\ ret' = r
                /\ pc' = IF "raised" \in DOMAIN r THEN "raised" ELSE "returned_again"
    /\ UNCHANGED <<df_or_list, date_col, tips_col, hours_col, name_col, clock_df,
                   clock_employee_col, clock_date_col, clock_hours_col, df,
                   daily_groups, final_tip_distribution, export_df, exc, warning>>

\* _normalize_df(df, date_col, tips_col, hours_col, name_col)
NormalizeDf ==
    /\ pc = "normalize_df"
    /\ \E r \in {normalize_df(args.df, args.date_col, args.tips_col,
                              args.hours_col, args.name_col)} :
          /\ ret' = r
          /\ pc' = IF "raised" \in DOMAIN r THEN "raised" ELSE "returned"
    /\ UNCHANGED <<df_or_list, date_col, tips_col, hours_col, name_col, clock_df,
                   clock_employee_col, clock_date_col, clock_hours_col, df,
                   daily_groups, final_tip_distribution, export_df, exc, warning, args>>

NextClock == ProcessClockCsv \/ ProcessClockCsvAgain \/ NormalizeDf

SpecClock == InitClock /\ [][NextClock]_vars

(***************************************************************************)
(* Sales reports: the tip-cell cleaning, process_sales_csv and             *)
(* _extract_from_transposed_sales_report.  The cells of a report are texts *)
(* or missing, as read_csv(header=None) gives them for a column that holds *)
(* a label or a date; an amount parsed from a text is an integer number of *)
(* hundredths, the texts of the model having at most two decimals.         *)
(***************************************************************************)
\* str.replace(old, new, regex=False) for a one-character old
RECURSIVE replace(_, _, _)
replace(s, old, new) ==
    IF s = <<>> THEN <<>>
    ELSE (IF Head(s) = old THEN new ELSE <<Head(s)>>) \o replace(Tail(s), old, new)

isdigit(c) == c \in {"0","1","2","3","4","5","6","7","8","9"}

isalpha(c) ==
    lower(<<c>>)[1] \in {"a","b","c","d","e","f","g","h","i","j","k","l","m",
                         "n","o","p","q","r","s","t","u","v","w","x","y","z"}

\* the number written by a text of decimal digits, 0 for the empty text
RECURSIVE int(_)
int(s) ==
    LET digits == <<"0","1","2","3","4","5","6","7","8","9">>
        value(c) == (CHOOSE d \in 1..10 : digits[d] = c) - 1
    IN  IF s = <<>> THEN 0
        ELSE 10 * int(SubSeq(s, 1, Len(s) - 1)) + value(s[Len(s)])

\* pd.to_numeric(text, errors='coerce') on one text: an optional sign, digits
\* and at most one point with a digit on some side give the amount, in
\* hundredths; any other text of the model gives NaN
to_numeric(text) ==
    LET s == strip(text)
        signed == s # <<>> /\ Head(s) \in {"-", "+"}
        body == IF signed THEN Tail(s) ELSE s
        points == {i \in 1..Len(body) : body[i] = "."}
        point == IF points = {} THEN Len(body) + 1
                 ELSE CHOOSE i \in points : \A j \in points : i <= j
        whole == SubSeq(body, 1, point - 1)
        frac == SubSeq(body, point + 1, Len(body))
        wellformed == /\ \A i \in 1..Len(whole) : isdigit(whole[i])
                      /\ \A i \in 1..Len(frac) : isdigit(frac[i])
                      /\ Len(whole) + Len(frac) > 0
        hundredths == 100 * int(whole) + int(SubSeq(frac \o <<"0","0">>, 1, 2))
    IN  IF ~wellformed THEN NaN
        ELSE IF signed /\ Head(s) = "-" THEN Num(0 - hundredths)
        ELSE Num(hundredths)

\* the cleaning of a tip cell that leaves accounting parentheses unsigned
clean_dropping_parentheses(cell) ==
    strip(replace(replace(replace(replace(str(cell), "$", <<>>), ",", <<>>),
                          "(", <<>>), ")", <<>>))

\* sales.py 59-67 and tips.py 199-207: astype(str), '$' and ',' removed,
\* '(' turned into '-', ')' removed, blanks stripped
clean(cell) ==
    strip(replace(replace(replace(replace(str(cell), "$", <<>>), ",", <<>>),
                          "(", <<"-">>), ")", <<>>))

\* pd.to_datetime on one report text: the day number it denotes, counted
\* from 2025-10-31 as in to_datetime, 0 when it raises.  A day and a month
\* without a year is read or rejected according to the pandas at hand
\* (yearless), and is read as a day of the year 1
pd_to_datetime(text, format, yearless) ==
    CASE format = None /\ text = <<"2","0","2","5","-","0","6","-","2","8">> -> 0 - 125
      [] format = None /\ text = <<"2","0","2","5","-","0","6","-","2","9">> -> 0 - 124
      [] format = None /\ text = <<"2","8","-","J","u","n">> /\ yearless -> 0 - 125 - (2024 * 365 + 491)
      [] format = None /\ text = <<"2","9","-","J","u","n">> /\ yearless -> 0 - 124 - (2024 * 365 + 491)
      [] format = DefaultDateFormat /\ text = <<"2","8","-","J","u","n","-","2","5">> -> 0 - 125
      [] format = DefaultDateFormat /\ text = <<"2","9","-","J","u","n","-","2","5">> -> 0 - 124
      [] OTHER -> 0

\* a parsed date as a cell: NaT is the missing value
Timestamp(day) == IF day = 0 THEN NaN ELSE Num(day)

Unreadable == [unreadable |-> TRUE]

\* Python's < on two texts, by the code points of the characters of the model
RECURSIVE str_lt(_, _)
str_lt(a, b) ==
    LET order == <<" ", "$", "(", ")", ",", "-", ".", "/",
                   "0","1","2","3","4","5","6","7","8","9",
                   "A","B","C","D","E","F","G","H","I","J","K","L","M",
                   "N","O","P","Q","R","S","T","U","V","W","X","Y","Z", "_",
                   "a","b","c","d","e","f","g","h","i","j","k","l","m",
                   "n","o","p","q","r","s","t","u","v","w","x","y","z">>
        ord(c) == CHOOSE n \in 1..Len(order) : order[n] = c
    IN  IF b = <<>> THEN FALSE
        ELSE IF a = <<>> THEN TRUE
        ELSE IF Head(a) = Head(b) THEN str_lt(Tail(a), Tail(b))
        ELSE ord(Head(a)) < ord(Head(b))

TipAmount == <<"T","i","p"," ","A","m","o","u","n","t">>
Sales == <<"S","a","l","e","s">>
Tips == <<"T","i","p","s">>

\* process_sales_csv(df, tips_row_label, sales_col_label, data_start_col),
\* lines 35-98; the dates of the first row are distinct, so that the order
\* of the sorted rows does not depend on the sorting algorithm
process_sales_csv(frame, tips_row_label, sales_col_label, data_start_col, yearless) ==
    LET label_col == ColIdx(frame, sales_col_label)
        tips_rows == {i \in 1..Len(frame.rows) : frame.rows[i][label_col] = Str(tips_row_label)}
        tips_row == frame.rows[CHOOSE i \in tips_rows : \A j \in tips_rows : i <= j]
        width == Len(frame.columns)
        \* lines 47-73: one row per column from data_start_col on
        built == [n \in 1..(IF width > data_start_col THEN width - data_start_col ELSE 0) |->
                    << Str(strip(str(frame.rows[1][data_start_col + n]))),
                       to_numeric(clean(tips_row[data_start_col + n])) >>]
        \* lines 76-79
        kept == SelectSeq(built, LAMBDA r : r[2] # NaN /\ r[1] # Str(<<>>))
        Date_dt(r) == pd_to_datetime(r[1].str, None, yearless)
        valid_dates == Cardinality({i \in 1..Len(kept) : Date_dt(kept[i]) # 0})
        \* sort_values: missing keys last
        by_date(r, s) == Date_dt(r) # 0 /\ (Date_dt(s) = 0 \/ Date_dt(r) < Date_dt(s))
        by_text(r, s) == str_lt(r[1].str, s[1].str)
        sorted(rows, before(_, _)) ==
            LET place(i) == 1 + Cardinality({j \in 1..Len(rows) :
                                 \/ before(rows[j], rows[i])
                                 \/ ~before(rows[i], rows[j]) /\ j < i})
            IN  [p \in 1..Len(rows) |-> rows[CHOOSE i \in 1..Len(rows) : place(i) = p]]
    IN  IF ~HasCol(frame, sales_col_label) THEN [raised |-> "ValueError"]
        ELSE IF tips_rows = {} THEN [raised |-> "ValueError"]
        ELSE [ok |-> [columns |-> <<Date, TipAmount>>,
                      rows |-> IF 2 * valid_dates > Len(kept)
                               THEN sorted(kept, by_date)
                               ELSE sorted(kept, by_text)]]

\* the number of rows _extract_from_transposed_sales_report scans for dates
DateScanWindow == 15

\* lines 143-145: the cells of row[1:] that are counted
counted(row) == {j \in 2..Len(row) : row[j] # NaN /\ strip(str(row[j])) # <<>>}

\* line 147: a text such as "28-Jun"
is_short_date(val_str) ==
    /\ Len(val_str) <= 10
    /\ \E i \in 1..Len(val_str) : val_str[i] = "-"
    /\ \E i \in 1..Len(val_str) : isalpha(val_str[i])

short_date_count(row) ==
    Cardinality({j \in counted(row) : is_short_date(strip(str(row[j])))})

date_count(row, yearless) ==
    Cardinality({j \in counted(row) : pd_to_datetime(strip(str(row[j])), None, yearless) # 0})

\* a test of the row that accepts parseable dates in the first rows too
is_date_row_anywhere(raw, idx, yearless) ==
    \/ 10 * short_date_count(raw[idx + 1]) >= 8 * (Len(raw[idx + 1]) - 1)
    \/ 10 * date_count(raw[idx + 1], yearless) >= 8 * (Len(raw[idx + 1]) - 1)

\* lines 156-163, for the row of index idx (from 0)
is_date_row(raw, idx, yearless) ==
    \/ 10 * short_date_count(raw[idx + 1]) >= 8 * (Len(raw[idx + 1]) - 1)
    \/ /\ 10 * date_count(raw[idx + 1], yearless) >= 8 * (Len(raw[idx + 1]) - 1)
       /\ idx > 2

\* the index that stands for None: no row
NoRow == 0 - 1

\* lines 136-163: the index of the date row, NoRow when no row qualifies
find_date_row(raw, yearless) ==
    LET window == {idx \in 0..(Len(raw) - 1) : idx < DateScanWindow}
        found == {idx \in window : is_date_row(raw, idx, yearless)}
    IN  IF found = {} THEN NoRow
        ELSE CHOOSE idx \in found : \A other \in found : idx <= other

tip_keywords == <<<<"t","i","p">>, <<"t","o","t","a","l">>, <<"g","r","a","t","u","i","t","y">>, <<"g","r","a","t","u","i","t","i","e","s">>, <<"d","i","s","t","r","i","b","u","t","e","d">>>>

\* lines 169-176: the index of the first row whose label holds a keyword
find_tips_row(raw) ==
    LET row_label(idx) == strip(lower(str(raw[idx + 1][1])))
        found == {idx \in 0..(Len(raw) - 1) :
                     \E k \in 1..Len(tip_keywords) : Contains(tip_keywords[k], row_label(idx))}
    IN  IF found = {} THEN NoRow
        ELSE CHOOSE idx \in found : \A other \in found : idx <= other

\* lines 216-228
parse_date(date_str, yearless) ==
    IF date_str = NaN \/ strip(str(date_str)) = <<>> THEN NaN
    ELSE IF pd_to_datetime(str(date_str), None, yearless) # 0
    THEN Timestamp(pd_to_datetime(str(date_str), None, yearless))
    ELSE Timestamp(pd_to_datetime(str(date_str) \o <<"-","2","5">>, DefaultDateFormat, yearless))

\* the table built from the dates of one row and the tips of the same row
\* shifted by one column
paired_rows_shifted(raw, date_row_idx, tips_row_idx, yearless) ==
    [n \in 1..(Len(raw[date_row_idx + 1]) - 1) |->
        << Str("Daily Tips"),
           parse_date(raw[date_row_idx + 1][n + 1], yearless),
           Num(1),
           to_numeric(clean(raw[tips_row_idx + 1][IF n + 2 <= Len(raw[tips_row_idx + 1])
                                                  THEN n + 2 ELSE 2])) >>]

\* lines 183-230: one row per column from 1 on, the date cell and the tips
\* cell of the column side by side
paired_rows(raw, date_row_idx, tips_row_idx, yearless) ==
    [n \in 1..(Len(raw[date_row_idx + 1]) - 1) |->
        << Str("Daily Tips"),
           parse_date(raw[date_row_idx + 1][n + 1], yearless),
           Num(1),
           to_numeric(clean(raw[tips_row_idx + 1][n + 1])) >>]

\* the body of the try block, lines 127-239; file_bytes is [grid |-> raw]
\* for bytes that read as the grid raw, and Unreadable for bytes that the
\* reader rejects
extract_body(file_bytes, filename, yearless) ==
    LET ext == extension(filename)
        located(raw, date_row_idx, tips_row_idx) ==
            LET daily_tips_df ==
                    SelectSeq(paired_rows(raw, date_row_idx, tips_row_idx, yearless),
                              LAMBDA r : r[2] # NaN /\ r[4] # NaN)
            IN  IF Len(daily_tips_df) > 0
                THEN [ok |-> [columns |-> TransposedColumns, rows |-> daily_tips_df]]
                ELSE [ok |-> None]
        dated(raw, date_row_idx) ==
            IF date_row_idx = NoRow THEN [ok |-> None]
            ELSE IF find_tips_row(raw) = NoRow THEN [ok |-> None]
            ELSE located(raw, date_row_idx, find_tips_row(raw))
    IN  IF ext \notin {<<"x","l","s","x">>, <<"x","l","s">>, <<"c","s","v">>} THEN [ok |-> None]
        ELSE IF file_bytes = Unreadable
        THEN [raised |-> IF ext = <<"c","s","v">> THEN "EmptyDataError" ELSE "ValueError"]
        ELSE dated(file_bytes.grid, find_date_row(file_bytes.grid, yearless))

\* the extractor without its except clause
extract_uncaught(file_bytes, filename, yearless) ==
    LET r == extract_body(file_bytes, filename, yearless)
    IN  IF "raised" \in DOMAIN r THEN r ELSE r.ok

\* _extract_from_transposed_sales_report(file_bytes, filename), lines 123-245:
\* the table, or None
extract_from_transposed_sales_report(file_bytes, filename, yearless) ==
    LET r == extract_body(file_bytes, filename, yearless)
    IN  IF "raised" \in DOMAIN r THEN None ELSE r.ok

\* the raw grids of the extractor: 0, 1, 3, DateScanWindow - 1 or
\* DateScanWindow blank rows, then at most MaxGridRows report rows of a label
\* and two day columns; grids of one column; and the empty sheet
ReportGrids ==
    LET rows3 == { <<NaN, Str(<<"2","8","-","J","u","n">>), Str(<<"2","9","-","J","u","n">>)>>,
                   <<NaN, Str(<<"2","8","-","J","u","n">>), Str(<<"N","-","A">>)>>,
                   <<Str(Date), Str(<<"2","0","2","5","-","0","6","-","2","8">>), Str(<<"2","0","2","5","-","0","6","-","2","9">>)>>,
                   <<Str(<<"N","e","t"," ","S","a","l","e","s">>), Str(<<"2","8","-","J","u","n">>), NaN>>,
                   <<Str(Tips), Str(<<"1","0","0">>), Str(<<"2","0","0">>)>>,
                   <<Str(Tips), Str(<<"$","4","5","0",".","5","0">>), Str(<<"$","(","5","0","0",".","0","0",")">>)>>,
                   <<Str(<<" ","T","o","t","a","l"," ","G","r","a","t","u","i","t","i","e","s">>), Str(<<"1",",","2","0","0">>), Str(<<"n","/","a">>)>>,
                   <<Str(<<"T","I","P","S">>), NaN, Str(<<" ">>)>> }
        rows1 == { <<Str(Tips)>>, <<NaN>> }
        blank == <<NaN, NaN, NaN>>
        above == {0, 1, 3, DateScanWindow - 1, DateScanWindow}
    IN  {[i \in 1..k |-> blank] \o r :
            k \in above, r \in UNION {[1..n -> rows3] : n \in 0..MaxGridRows}}
        \cup UNION {[1..n -> rows1] : n \in 0..MaxGridRows}

\* reports with two rows of dates, one of short dates and one of full dates
\* in the opposite order of days, below three blank rows and above the tips
TwoDateRows ==
    LET blank == <<NaN, NaN, NaN>>
        full == <<Str(Date), Str(<<"2","0","2","5","-","0","6","-","2","8">>), Str(<<"2","0","2","5","-","0","6","-","2","9">>)>>
        short == <<NaN, Str(<<"2","9","-","J","u","n">>), Str(<<"2","8","-","J","u","n">>)>>
        tips == <<Str(Tips), Str(<<"1","0","0">>), Str(<<"2","0","0">>)>>
    IN  { <<blank, blank, blank, full, short, tips>>,
          <<blank, blank, blank, short, full, tips>>,
          <<blank, full, short, tips>> }

ReportFiles == {[grid |-> raw] : raw \in ReportGrids \cup TwoDateRows} \cup {Unreadable}

\* the tables of process_sales_csv: a first row of dates, then at most
\* MaxGridRows rows of a label and two cells
SalesTables ==
    LET first == { <<Str(<<"x">>), Str(<<"2","0","2","5","-","0","6","-","2","9">>), Str(<<"2","0","2","5","-","0","6","-","2","8">>)>>,
                   <<Str(<<"x">>), Str(<<"D","a","t","e"," ","2">>), Str(<<"D","a","t","e"," ","1">>)>>,
                   <<Str(<<"x">>), Str(<<" ">>), Str(<<"2","0","2","5","-","0","6","-","2","8">>)>>,
                   <<Str(<<"x">>), NaN, Str(<<"2","8","-","J","u","n">>)>> }
        rest == { <<Str(Tips), Str(<<"$","4","5","0",".","5","0">>), Str(<<"$","(","5","0","0",".","0","0",")">>)>>,
                  <<Str(Tips), Str(<<"1","5","0",".","0","0">>), Str(<<"n","/","a">>)>>,
                  <<Str(<<"I","t","e","m"," ","A">>), Str(<<"u","n","i","t","s">>), Str(<<"1","0">>)>>,
                  <<Str(<<"G","r","a","t","u","i","t","y">>), Str(<<>>), Str(<<"8","5",".","2","5">>)>> }
        columns == { <<Sales, <<"M","e","t","r","i","c">>, <<"C","o","l","3">>>>, <<<<"C","a","t","e","g","o","r","y">>, <<"W","e","e","k">>, <<"C","o","l","3">>>> }
    IN  {[columns |-> c, rows |-> <<f>> \o r] :
            c \in columns, f \in first, r \in UNION {[1..n -> rest] : n \in 0..MaxGridRows}}
        \cup {[columns |-> c, rows |-> <<>>] : c \in columns}

InitSales ==
    \/ \E file_bytes \in ReportFiles, yearless \in BOOLEAN,
          filename \in {<<"r","e","p","o","r","t",".","c","s","v">>, <<"S","a","l","e","s",".","X","L","S","X">>, <<"n","o","t","e","s",".","t","x","t">>, <<>>} :
          HelperCall("extract_from_transposed_sales_report",
                     [file_bytes |-> file_bytes, filename |-> filename,
                      yearless |-> yearless])
    \/ \E table \in SalesTables, yearless \in BOOLEAN, data_start_col \in {1, 2},
          labels \in {<<Tips, Sales>>, <<<<"G","r","a","t","u","i","t","y">>, <<"C","a","t","e","g","o","r","y">>>>} :
          HelperCall("process_sales_csv",
                     [df |-> table, tips_row_label |-> labels[1],
                      sales_col_label |-> labels[2],
                      data_start_col |-> data_start_col, yearless |-> yearless])

\* _extract_from_transposed_sales_report(file_bytes, filename), lines 123-245
ExtractFromTransposedSalesReport ==
    /\ pc = "extract_from_transposed_sales_report"
    /\ \E r \in {extract_from_transposed_sales_report(args.file_bytes, args.filename, args.yearless)} :
          /\ ret' = r
          /\ pc' = IF "raised" \in DOMAIN r THEN "raised" ELSE "returned"
    /\ UNCHANGED <<df_or_list, date_col, tips_col, hours_col, name_col, clock_df,
                   clock_employee_col, clock_date_col, clock_hours_col, df,
                   daily_groups, final_tip_distribution, export_df, exc, warning, args>>

\* process_sales_csv(df, tips_row_label, sales_col_label, data_start_col)
ProcessSalesCsv ==
    /\ pc = "process_sales_csv"
    /\ \E r \in {process_sales_csv(args.df, args.tips_row_label, args.sales_col_label,
                                   args.data_start_col, args.yearless)} :
          /\ ret' = r
          /\ pc' = IF "raised" \in DOMAIN r THEN "raised" ELSE "returned"
    /\ UNCHANGED <<df_or_list, date_col, tips_col, hours_col, name_col, clock_df,
                   clock_employee_col, clock_date_col, clock_hours_col, df,
                   daily_groups, final_tip_distribution, export_df, exc, warning, args>>

NextSales == ExtractFromTransposedSalesReport \/ ProcessSalesCsv

SpecSales == InitSales /\ [][NextSales]_vars

(***************************************************************************)
(* The decimal helpers of calculator/core.py.  A Decimal is                *)
(* [sign |-> 0 or 1, digits |-> the coefficient, most significant digit    *)
(* first, exp |-> the exponent of ten]; the coefficient is a sequence of   *)
(* digits because the precision of the context, 28 digits, is part of the  *)
(* arithmetic.                                                             *)
(***************************************************************************)
\* getcontext().prec
prec == 28

Decimal(sign, digits, exp) == [sign |-> sign, digits |-> digits, exp |-> exp]

\* a coefficient without its leading zeros, <<0>> for zero
RECURSIVE normal(_)
normal(c) ==
    IF c = <<>> THEN <<0>>
    ELSE IF Head(c) = 0 /\ Len(c) > 1 THEN normal(Tail(c))
    ELSE c

front(c) == SubSeq(c, 1, Len(c) - 1)

\* the sum of two coefficients and a carry
RECURSIVE plus(_, _, _)
plus(x, y, carry) ==
    IF x = <<>> /\ y = <<>> THEN (IF carry = 0 THEN <<>> ELSE <<carry>>)
    ELSE LET dx == IF x = <<>> THEN 0 ELSE x[Len(x)]
             dy == IF y = <<>> THEN 0 ELSE y[Len(y)]
             s == dx + dy + carry
         IN  plus(IF x = <<>> THEN <<>> ELSE front(x),
                  IF y = <<>> THEN <<>> ELSE front(y), s \div 10) \o <<s % 10>>

\* the digits of a number
RECURSIVE digits_of(_)
digits_of(n) == IF n < 10 THEN <<n>> ELSE digits_of(n \div 10) \o <<n % 10>>

\* the number written by a short coefficient
RECURSIVE number(_)
number(c) == IF c = <<>> THEN 0 ELSE 10 * number(front(c)) + c[Len(c)]

\* a coefficient times a number, plus a carry
RECURSIVE scaled(_, _, _)
scaled(x, n, carry) ==
    IF x = <<>> THEN (IF carry = 0 THEN <<>> ELSE digits_of(carry))
    ELSE LET s == x[Len(x)] * n + carry
         IN  scaled(front(x), n, s \div 10) \o <<s % 10>>

\* the exact product of two coefficients, the shorter of which is a number
\* of at most MaxShortDigits digits
times(x, y) ==
    IF Len(y) > Len(x) THEN scaled(y, number(x), 0) ELSE scaled(x, number(y), 0)

is_zero(c) == \A i \in 1..Len(c) : c[i] = 0

\* a result brought to the precision of the context, ROUND_HALF_EVEN
fix(d) ==
    LET c == normal(d.digits)
        kept == SubSeq(c, 1, prec)
        dropped == SubSeq(c, prec + 1, Len(c))
        above_half == \/ dropped[1] > 5
                      \/ dropped[1] = 5 /\ ~is_zero(Tail(dropped))
        half == dropped[1] = 5 /\ is_zero(Tail(dropped))
        up == above_half \/ (half /\ kept[prec] % 2 = 1)
        rounded == IF up THEN plus(kept, <<>>, 1) ELSE kept
    IN  IF Len(c) <= prec THEN Decimal(d.sign, c, d.exp)
        ELSE IF Len(rounded) > prec
        THEN Decimal(d.sign, front(rounded), d.exp + Len(dropped) + 1)
        ELSE Decimal(d.sign, rounded, d.exp + Len(dropped))

\* a * b in the context
multiply(a, b) ==
    fix(Decimal((a.sign + b.sign) % 2, times(a.digits, b.digits), a.exp + b.exp))

\* a / Decimal("100"): no digit is lost
divide_by_100(a) == Decimal(a.sign, a.digits, a.exp - 2)

\* d.quantize(Decimal("0.01"), rounding=ROUND_HALF_UP): the value with two
\* decimals, InvalidOperation when it has more digits than the context
quantize(d) ==
    LET c == normal(d.digits)
        cut == 0 - 2 - d.exp       \* the digits to drop when positive
        padded == IF cut > Len(c) THEN [i \in 1..(cut - Len(c)) |-> 0] \o c ELSE c
        kept == SubSeq(padded, 1, Len(padded) - cut)
        up == padded[Len(padded) - cut + 1] >= 5
        coefficient ==
            IF is_zero(c) THEN <<0>>
            ELSE IF cut <= 0 THEN c \o [i \in 1..(0 - cut) |-> 0]
            ELSE normal(IF up THEN plus(kept, <<>>, 1) ELSE kept)
    IN  IF Len(coefficient) > prec THEN [raised |-> "InvalidOperation"]
        ELSE Decimal(d.sign, coefficient, 0 - 2)

\* a < 0 on a Decimal
negative(a) == a.sign = 1 /\ ~is_zero(a.digits)

\* calculate_tip(amount, percent) on Decimal arguments, which _to_decimal
\* returns as they are
calculate_tip(amount, percent) ==
    IF negative(amount) \/ negative(percent) THEN [raised |-> "ValueError"]
    ELSE quantize(divide_by_100(multiply(amount, percent)))

\* calculate_pay(hours, rate) on Decimal arguments
calculate_pay(hours, rate) ==
    IF negative(hours) \/ negative(rate) THEN [raised |-> "ValueError"]
    ELSE quantize(multiply(hours, rate))

\* the Decimal arguments of the tests, and arguments of many digits: 29
\* nines after the point, 10^26 and 10^25
Decimals ==
    { Decimal(0, <<1, 0, 0>>, 0), Decimal(0, <<1, 5>>, 0), Decimal(0, <<0>>, 0),
      Decimal(0, <<2, 0>>, 0), Decimal(0, <<1>>, 0), Decimal(0, <<5>>, 0 - 1),
      Decimal(0, <<4, 0>>, 0), Decimal(0, <<1, 5, 5>>, 0 - 1),
      Decimal(0, <<2, 3, 4, 5>>, 0 - 3), Decimal(0, <<1, 0>>, 0),
      Decimal(1, <<1>>, 0), Decimal(1, <<5>>, 0), Decimal(1, <<0>>, 0),
      Decimal(0, <<5>>, 0 - 3),
      Decimal(0, [i \in 1..29 |-> 9], 0 - 29),
      Decimal(0, <<1>>, 26), Decimal(0, <<1>>, 25) }

\* the digits of the shorter coefficient of the two arguments of a call
MaxShortDigits == 4

InitCore ==
    \E x \in Decimals, y \in Decimals, helper \in {"calculate_tip", "calculate_pay"} :
        /\ (Len(x.digits) <= MaxShortDigits \/ Len(y.digits) <= MaxShortDigits)
        /\ HelperCall(helper, IF helper = "calculate_tip"
                               THEN [amount |-> x, percent |-> y]
                               ELSE [hours |-> x, rate |-> y])

CalculateTip ==
    /\ pc = "calculate_tip"
    /\ \E r \in {calculate_tip(args.amount, args.percent)} :
          /\ ret' = r
          /\ pc' = IF "raised" \in DOMAIN r THEN "raised" ELSE "returned"
    /\ UNCHANGED <<df_or_list, date_col, tips_col, hours_col, name_col, clock_df,
                   clock_employee_col, clock_date_col, clock_hours_col, df,
                   daily_groups, final_tip_distribution, export_df, exc, warning, args>>

CalculatePay ==
    /\ pc = "calculate_pay"
    /\ \E r \in {calculate_pay(args.hours, args.rate)} :
          /\ ret' = r
          /\ pc' = IF "raised" \in DOMAIN r THEN "raised" ELSE "returned"
    /\ UNCHANGED <<df_or_list, date_col, tips_col, hours_col, name_col, clock_df,
                   clock_employee_col, clock_date_col, clock_hours_col, df,
                   daily_groups, final_tip_distribution, export_df, exc, warning, args>>

NextCore == CalculateTip \/ CalculatePay

SpecCore == InitCore /\ [][NextCore]_vars

(***************************************************************************)
(* The upload handler of web_app.py.                                       *)
(***************************************************************************)
\* ALLOWED_EXTENSIONS and _allowed_file, lines 169-173
allowed_file(filename) ==
    extension(filename) \in {<<"x","l","s","x">>, <<"x","l","s">>, <<"c","s","v">>}

\* the texts of the uploaded grids, as the strings of the tables of
\* distribute_daily_tips_df
text_of(chars) ==
    CASE chars = <<"A","l","i","c","e">> -> "Alice"
      [] chars = <<"B","o","b">> -> "Bob"
      [] chars = <<"2","0","2","5","-","1","1","-","0","1">> -> "2025-11-01"
      [] chars = <<"2","0","2","5","-","1","1","-","0","2">> -> "2025-11-02"
      [] OTHER -> "n/a"

\* pd.read_excel and pd.read_csv give a cell that holds a number as a number
\* and any other cell as its text; the numbers of the uploads are whole
typed(frame) ==
    LET value(c) == IF c = NaN THEN NaN
                    ELSE IF to_numeric(c.str) # NaN
                    THEN Num(to_numeric(c.str).num \div 100)
                    ELSE Str(text_of(c.str))
    IN  [columns |-> frame.columns,
         rows |-> [r \in 1..Len(frame.rows) |->
                     [k \in 1..Len(frame.rows[r]) |-> value(frame.rows[r][k])]]]

\* the table of the extractor with its amounts, which are whole, in units
in_units(frame) ==
    [columns |-> frame.columns,
     rows |-> [r \in 1..Len(frame.rows) |->
                 [frame.rows[r] EXCEPT ![4] = Num(@.num \div 100)]]]

\* read_file_to_df on the bytes of an upload: the typed table, or what the
\* reader raises
read_upload(f) ==
    IF f.file_bytes = Unreadable THEN [raised |-> "EmptyDataError"]
    ELSE LET r == read_file_to_df(f.file_bytes.grid, f.filename)
         IN  IF "raised" \in DOMAIN r THEN r ELSE [ok |-> typed(r.ok)]

TotalHoursWorked == <<"T","o","t","a","l"," ","H","o","u","r","s"," ","W","o","r","k","e","d">>

\* _generate_pdf_report, lines 12-123: the rows of the table of the report,
\* or the KeyError of a row that lacks one of the three columns it reads
generate_pdf_report(export) ==
    LET header == <<EmployeeName, TotalHoursWorked, TotalTipShare>>
        line(row) == [k \in 1..3 |-> row[ColIdx(export, header[k])]]
    IN  IF Len(export.rows) > 0 /\ \E k \in 1..3 : ~HasCol(export, header[k])
        THEN [raised |-> "KeyError"]
        ELSE [ok |-> [table_data |-> <<header>>
                                     \o [r \in 1..Len(export.rows) |-> line(export.rows[r])]]]

\* return render_template("index.html") after flash(message)
render_index(message) ==
    [status |-> 200, mimetype |-> "text/html", as_attachment |-> FALSE,
     download_name |-> None, flashed |-> message,
     body |-> [template |-> "index.html"]]

\* lines 296-301: send_file(pdf_buffer, as_attachment=True, ...)
send_pdf(report) ==
    [status |-> 200, mimetype |-> "application/pdf", as_attachment |-> TRUE,
     download_name |-> <<"T","i","p","_","P","a","y","r","o","l","l","_","S","u","m","m","a","r","y",".","p","d","f">>, flashed |-> "none",
     body |-> report]

\* the uploads of the model
\* the clock file of tests/test_web_integration.py, with the names and the
\* dates of the model
ClockXlsx ==
    [filename |-> <<"c","l","o","c","k",".","x","l","s","x">>,
     file_bytes |-> [grid |->
        << <<Str(<<"E","m","p","l","o","y","e","e">>), Str(<<"D","a","t","e">>), Str(<<"H","o","u","r","s">>)>>,
           <<Str(<<"A","l","i","c","e">>), Str(<<"2","0","2","5","-","1","1","-","0","1">>), Str(<<"3">>)>>,
           <<Str(<<"B","o","b">>), Str(<<"2","0","2","5","-","1","1","-","0","1">>), Str(<<"3">>)>>,
           <<Str(<<"A","l","i","c","e">>), Str(<<"2","0","2","5","-","1","1","-","0","2">>), Str(<<"2">>)>>,
           <<Str(<<"B","o","b">>), Str(<<"2","0","2","5","-","1","1","-","0","2">>), Str(<<"6">>)>> >>]]

\* its first tips file
Input1Xlsx ==
    [filename |-> <<"i","n","p","u","t","1",".","x","l","s","x">>,
     file_bytes |-> [grid |->
        << <<Str(<<"S","h","i","f","t"," ","D","a","t","e">>), Str(<<"D","a","i","l","y"," ","T","i","p"," ","T","o","t","a","l">>), Str(<<"H","o","u","r","s"," ","W","o","r","k","e","d">>), Str(<<"E","m","p","l","o","y","e","e"," ","N","a","m","e">>)>>,
           <<Str(<<"2","0","2","5","-","1","1","-","0","1">>), Str(<<"9","0">>), Str(<<"3">>), Str(<<"A","l","i","c","e">>)>>,
           <<Str(<<"2","0","2","5","-","1","1","-","0","1">>), Str(<<"0">>), Str(<<"3">>), Str(<<"B","o","b">>)>> >>]]

\* its second tips file
Input2Xlsx ==
    [filename |-> <<"i","n","p","u","t","2",".","x","l","s","x">>,
     file_bytes |-> [grid |->
        << <<Str(<<"S","h","i","f","t"," ","D","a","t","e">>), Str(<<"D","a","i","l","y"," ","T","i","p"," ","T","o","t","a","l">>), Str(<<"H","o","u","r","s"," ","W","o","r","k","e","d">>), Str(<<"E","m","p","l","o","y","e","e"," ","N","a","m","e">>)>>,
           <<Str(<<"2","0","2","5","-","1","1","-","0","2">>), Str(<<"3","0">>), Str(<<"2">>), Str(<<"A","l","i","c","e">>)>>,
           <<Str(<<"2","0","2","5","-","1","1","-","0","2">>), Str(<<"0">>), Str(<<"6">>), Str(<<"B","o","b">>)>> >>]]

\* a transposed sales report
ReportCsv ==
    [filename |-> <<"r","e","p","o","r","t",".","c","s","v">>,
     file_bytes |-> [grid |->
        << <<NaN, Str(<<"2","8","-","J","u","n">>), Str(<<"2","9","-","J","u","n">>)>>,
           <<Str(<<"T","i","p","s">>), Str(<<"1","0","0">>), Str(<<"2","0","0">>)>> >>]]

\* a tips file without rows
Input3Csv ==
    [filename |-> <<"i","n","p","u","t","3",".","c","s","v">>,
     file_bytes |-> [grid |->
        << <<Str(<<"S","h","i","f","t"," ","D","a","t","e">>), Str(<<"D","a","i","l","y"," ","T","i","p"," ","T","o","t","a","l">>), Str(<<"H","o","u","r","s"," ","W","o","r","k","e","d">>), Str(<<"E","m","p","l","o","y","e","e"," ","N","a","m","e">>)>> >>]]

\* a timesheet without rows
TimesheetCsv ==
    [filename |-> <<"t","i","m","e","s","h","e","e","t",".","c","s","v">>,
     file_bytes |-> [grid |->
        << <<Str(Employee), Str(Date), Str(Hours)>> >>]]

\* a text file
NotesTxt ==
    [filename |-> <<"n","o","t","e","s",".","t","x","t">>, file_bytes |-> Unreadable]

\* a file that the reader rejects
BrokenCsv ==
    [filename |-> <<"b","r","o","k","e","n",".","c","s","v">>, file_bytes |-> Unreadable]

\* an upload without a name
Unnamed ==
    [filename |-> <<>>, file_bytes |-> Unreadable]

Uploads ==
    {ClockXlsx, Input1Xlsx, Input2Xlsx, ReportCsv, Input3Csv, TimesheetCsv,
     NotesTxt, BrokenCsv, Unnamed}

\* the requests of the model: at most MaxFiles uploads, and a clock file
\* followed by two tips files
MaxFiles == 2

Requests ==
    UNION {[1..n -> Uploads] : n \in 0..MaxFiles}
    \cup {<<c, a, b>> : c \in {ClockXlsx, TimesheetCsv},
                       a \in {Input1Xlsx, Input2Xlsx, ReportCsv, Input3Csv},
                       b \in {Input1Xlsx, Input2Xlsx, ReportCsv, Input3Csv}}

InitUpload ==
    \E files \in Requests, yearless \in BOOLEAN :
        HelperCall("index", [files |-> files, yearless |-> yearless])

\* index(), lines 202-262: the checks of the request, the sorting of the
\* files into clock files and tips files, and the reading of the first clock
\* file.  ret holds the locals clock_files, tips_files (those not loaded
\* yet), dfs and, for every file loaded, which of the two readers gave its
\* table
Index ==
    /\ pc = "index"
    /\ LET uploaded_files == args.files
           valid_files == SelectSeq(uploaded_files,
                              LAMBDA f : f.filename # <<>> /\ allowed_file(f.filename))
           unread == \E i \in 1..Len(valid_files) :
                        "raised" \in DOMAIN read_upload(valid_files[i])
           is_clock(f) == is_clock_file(read_upload(f).ok, f.filename)
           clock_files == SelectSeq(valid_files, is_clock)
           tips_files == SelectSeq(valid_files, LAMBDA f : ~is_clock(f))
           answer(message) ==
               /\ pc' = "responded"
               /\ ret' = render_index(message)
               /\ clock_df' = clock_df
       IN  IF \A i \in 1..Len(uploaded_files) : uploaded_files[i].filename = <<>>
           THEN answer("Please upload at least one file.")
           ELSE IF valid_files = <<>>
           THEN answer("Unsupported file type.")
           ELSE IF unread
           THEN answer("Error reading file")
           ELSE IF clock_files = <<>>
           THEN answer("No clock/timesheet file detected.")
           ELSE /\ pc' = "load"
                /\ clock_df' = read_upload(clock_files[1]).ok
                /\ ret' = [clock_files |-> clock_files, tips_files |-> tips_files,
                           dfs |-> <<>>, loaded |-> <<>>]
    /\ UNCHANGED <<df_or_list, date_col, tips_col, hours_col, name_col,
                   clock_employee_col, clock_date_col, clock_hours_col, df,
                   daily_groups, final_tip_distribution, export_df, exc, warning,
                   args>>

\* a loop that applies the flat reader to every file
always_read(extracted) == TRUE

\* line 272, `if df is None`: the extractor returned no table
needs_reader(extracted) == extracted = None

\* index(), lines 267-269: the loop over the tips files takes the next file
\* and tries the transposed extractor on it; a table it returns is appended
\* to dfs (line 275)
TryExtractor ==
    /\ pc = "load"
    /\ ret.tips_files # <<>>
    /\ \E f \in {Head(ret.tips_files)} :
       \E extracted \in {extract_from_transposed_sales_report(f.file_bytes, f.filename,
                                                              args.yearless)} :
          IF needs_reader(extracted)
          THEN pc' = "load_flat" /\ ret' = ret
          ELSE /\ pc' = "load"
               /\ ret' = [ret EXCEPT !.tips_files = Tail(@),
                                     !.dfs = Append(@, in_units(extracted)),
                                     !.loaded = Append(@, [file |-> f, by |-> "extractor"])]
    /\ UNCHANGED <<df_or_list, date_col, tips_col, hours_col, name_col, clock_df,
                   clock_employee_col, clock_date_col, clock_hours_col, df,
                   daily_groups, final_tip_distribution, export_df, exc, warning,
                   args>>

\* index(), lines 271-276: the flat reader is applied to the file and its
\* table is appended to dfs; what it raises is flashed (lines 301-307)
ReadFlat ==
    /\ pc = "load_flat"
    /\ \E f \in {Head(ret.tips_files)} :
       \E r \in {read_upload(f)} :
          IF "raised" \in DOMAIN r
          THEN /\ pc' = "responded"
               /\ ret' = render_index("Error processing file")
          ELSE /\ pc' = "load"
               /\ ret' = [ret EXCEPT !.tips_files = Tail(@),
                                     !.dfs = Append(@, r.ok),
                                     !.loaded = Append(@, [file |-> f, by |-> "reader"])]
    /\ UNCHANGED <<df_or_list, date_col, tips_col, hours_col, name_col, clock_df,
                   clock_employee_col, clock_date_col, clock_hours_col, df,
                   daily_groups, final_tip_distribution, export_df, exc, warning,
                   args>>

\* index(), lines 278-289: the call of distribute_daily_tips_df with the
\* tables loaded, or None when there is none, and with no column named
CallDistribute ==
    /\ pc = "load"
    /\ ret.tips_files = <<>>
    /\ pc' = "call"
    /\ df_or_list' = IF ret.dfs # <<>> THEN [list |-> ret.dfs] ELSE NoFrame
    /\ UNCHANGED <<date_col, tips_col, hours_col, name_col, clock_df,
                   clock_employee_col, clock_date_col, clock_hours_col, df,
                   daily_groups, final_tip_distribution, export_df, exc, warning,
                   args, ret>>

\* index(), lines 291-307: the report of the returned export table is sent
\* as an attachment; an exception of the call or of the report is flashed on
\* the index page
SendReport ==
    /\ pc \in {"returned", "raised"}
    /\ pc' = "responded"
    /\ \E report \in {IF pc = "raised" THEN [raised |-> exc]
                      ELSE generate_pdf_report(export_df)} :
          ret' = IF "raised" \in DOMAIN report
                 THEN render_index("Error processing file")
                 ELSE send_pdf(report.ok)
    /\ UNCHANGED <<df_or_list, date_col, tips_col, hours_col, name_col, clock_df,
                   clock_employee_col, clock_date_col, clock_hours_col, df,
                   daily_groups, final_tip_distribution, export_df, exc, warning,
                   args>>

NextUpload ==
    \/ Index \/ TryExtractor \/ ReadFlat \/ CallDistribute
    \/ ClockOnly \/ Prepare \/ MergeClock \/ DistributeDay \/ Return
    \/ SendReport

SpecUpload == InitUpload /\ [][NextUpload]_vars

(***************************************************************************)
(* Properties of distribute_daily_tips_df.                                 *)
(***************************************************************************)
\* the call has tips sources
TipsCall == df_or_list \notin {NoFrame, EmptyList}

\* the working table has the four role columns
HasRoles ==
    /\ HasCol(df, date_col) /\ HasCol(df, tips_col)
    /\ HasCol(df, hours_col) /\ HasCol(df, name_col)

\* the loop of lines 449-463 is about to handle the date Head(daily_groups)
AtDate == pc = "loop" /\ daily_groups # <<>> /\ HasRoles

\* the rows of a date, its total tips T and its total hours H
RowsOf(date) == SelectSeq(df.rows, LAMBDA r : r[ColIdx(df, date_col)] = Num(date))
TipsOf(date) ==
    SumSeq([i \in 1..Len(RowsOf(date)) |-> RowsOf(date)[i][ColIdx(df, tips_col)].num])
HoursOf(date) ==
    SumSeq([i \in 1..Len(RowsOf(date)) |-> RowsOf(date)[i][ColIdx(df, hours_col)].num])
Distributable(date) == HoursOf(date) > 0 /\ TipsOf(date) # 0

\* the sum of the amounts of a distribution
Allocated(dict) == SumSeq([i \in 1..Len(dict) |-> dict[i][2]])

\* C1: handling a date whose rows all have non-negative hours, whose total
\* hours H is > 0 and whose total tips T is # 0 adds exactly T (Scale * T
\* units) to the sum of the running totals
C1_DayAllocationsSumToDayTips ==
    [][(/\ AtDate
        /\ Distributable(Head(daily_groups))
        /\ \A i \in 1..Len(RowsOf(Head(daily_groups))) :
              RowsOf(Head(daily_groups))[i][ColIdx(df, hours_col)].num >= 0)
       => Allocated(final_tip_distribution') - Allocated(final_tip_distribution)
             = Scale * TipsOf(Head(daily_groups))]_vars

\* a date of T = 4 and H = 3 has been shared 2 : 1 between Alice and Bob
C1_Witness ==
    /\ pc = "loop" /\ daily_groups = <<>>
    /\ final_tip_distribution = << <<Str("Alice"), (8 * Scale) \div 3>>,
                                   <<Str("Bob"), (4 * Scale) \div 3>> >>

\* C2: handling a date whose total hours H is <= 0 or whose total tips T is
\* 0 leaves every running total as it was and raises nothing
C2_SkippedDateChangesNothing ==
    [][(AtDate /\ ~Distributable(Head(daily_groups)))
       => /\ final_tip_distribution' = final_tip_distribution
          /\ pc' = "loop" /\ exc' = "none"]_vars

\* the first date was shared out and the second one, which has rows but no
\* distributable pool, has been passed
C2_Witness ==
    /\ pc = "loop" /\ daily_groups = <<>> /\ HasRoles
    /\ final_tip_distribution # <<>>
    /\ RowsOf(2) # <<>> /\ ~Distributable(2)
    /\ RowsOf(1) # <<>> /\ Distributable(1)

\* the sum, over the rows of an employee that have hours h > 0 on a
\* distributable date d, of T_d * h / H_d
ShareOf(name) ==
    LET d == ColIdx(df, date_col)
        h == ColIdx(df, hours_col)
        n == ColIdx(df, name_col)
        counts(r) == /\ r[n] = name /\ r[h].num > 0
                     /\ r[d].num # 0 /\ Distributable(r[d].num)
    IN  SumSeq([i \in 1..Len(df.rows) |->
                  IF counts(df.rows[i])
                  THEN (TipsOf(df.rows[i][d].num) * df.rows[i][h].num * Scale)
                          \div HoursOf(df.rows[i][d].num)
                  ELSE 0])

\* the employees that have a row with hours > 0 on a distributable date
Sharers ==
    LET d == ColIdx(df, date_col)
        h == ColIdx(df, hours_col)
        n == ColIdx(df, name_col)
    IN  {df.rows[i][n] : i \in {j \in 1..Len(df.rows) :
            /\ df.rows[j][h].num > 0 /\ df.rows[j][d].num # 0
            /\ Distributable(df.rows[j][d].num)}}

\* C3: the returned distribution has exactly the employees that have a
\* row with hours > 0 on a distributable date, each with the sum of
\* T_d * h / H_d over those rows; the two-day table of the test gives 74, 86
C3_FinalDistributionIsSumOfShares ==
    (pc = "returned" /\ TipsCall) =>
        /\ {final_tip_distribution[i][1] : i \in 1..Len(final_tip_distribution)} = Sharers
        /\ \A i, j \in 1..Len(final_tip_distribution) :
              final_tip_distribution[i][1] = final_tip_distribution[j][1] => i = j
        /\ \A i \in 1..Len(final_tip_distribution) :
              final_tip_distribution[i][2] = ShareOf(final_tip_distribution[i][1])
        /\ (df_or_list = [columns |-> TestColumns,
                          rows |-> << TipsRow("2025-11-01", 100, 5, "Alice"),
                                      TipsRow("2025-11-01", 0, 5, "Bob"),
                                      TipsRow("2025-11-02", 60, 4, "Alice"),
                                      TipsRow("2025-11-02", 0, 6, "Bob") >>])
              => final_tip_distribution = << <<Str("Alice"), 74 * Scale>>,
                                             <<Str("Bob"), 86 * Scale>> >>

\* the call on the two-day table of the test has returned 74 and 86
C3_Witness ==
    /\ pc = "returned" /\ TipsCall
    /\ Len(df.rows) = 4
    /\ final_tip_distribution = << <<Str("Alice"), 74 * Scale>>,
                                   <<Str("Bob"), 86 * Scale>> >>

\* C4: once the clock table of a call with tips sources has been merged, a
\* row of the working table whose (date, employee) is a key of the
\* aggregated clock data has the clock's total hours of that key
C4_ClockHoursOverrideTipsHours ==
    (pc = "loop" /\ TipsCall /\ clock_df # NoFrame /\ HasRoles) =>
        \A aggregated \in {process_clock_csv(clock_df, clock_employee_col,
                                             clock_date_col, clock_hours_col,
                                             DefaultDateFormat)} :
            "ok" \in DOMAIN aggregated =>
                \A i \in 1..Len(df.rows), k \in 1..Len(aggregated.ok.rows) :
                    (/\ aggregated.ok.rows[k][1] = df.rows[i][ColIdx(df, name_col)]
                     /\ aggregated.ok.rows[k][2] = df.rows[i][ColIdx(df, date_col)])
                    => df.rows[i][ColIdx(df, hours_col)] = aggregated.ok.rows[k][3]

\* what the call returns for the same tips sources when no clock table is given
NoClockDistribution ==
    LET table == normalize_df(concat_if_needed(df_or_list), date_col, tips_col,
                              hours_col, name_col).ok
        RECURSIVE loop(_, _)
        loop(dates, dict) ==
            IF dates = <<>> THEN dict
            ELSE loop(Tail(dates), distribute_day(table, date_col, tips_col, hours_col,
                                                  name_col, Head(dates), dict))
    IN  loop(groupby_dates(table, date_col), <<>>)

\* C5: when process_clock_csv or the merge raises, no exception reaches the
\* caller and the returned distribution is the one of the same tips sources
\* without a clock table
C5_ClockFailureFallsBackToTipsHours ==
    (TipsCall /\ warning \in {"process_clock_csv", "merge"}) =>
        /\ pc # "raised" /\ exc = "none"
        /\ pc = "returned" => final_tip_distribution = NoClockDistribution

\* a call whose merge raised has returned a distribution that is not empty
C5_Witness ==
    /\ pc = "returned" /\ TipsCall /\ clock_df # NoFrame
    /\ warning = "merge"
    /\ final_tip_distribution # <<>>

\* the call has no tips source
ClockOnlyCall == df_or_list \in {NoFrame, EmptyList}

\* the column of the clock table a role resolves to (lines 382-390), None
\* when it does not resolve
ResolvedCol(given, names) ==
    IF given # None THEN given
    ELSE IF \E i \in 1..Len(clock_df.columns) : lower(clock_df.columns[i]) \in names
    THEN clock_df.columns[CHOOSE i \in 1..Len(clock_df.columns) :
            /\ lower(clock_df.columns[i]) \in names
            /\ \A j \in 1..(i - 1) : lower(clock_df.columns[j]) \notin names]
    ELSE None
ResolvedEmployee ==
    ResolvedCol(clock_employee_col,
                {lower(Employee), <<"n","a","m","e">>, <<"s","t","a","f","f">>})
ResolvedDate ==
    ResolvedCol(clock_date_col,
                {lower(Date), <<"s","h","i","f","t"," ","d","a","t","e">>,
                 <<"c","l","o","c","k"," ","i","n"," ","d","a","t","e">>})
ResolvedHours ==
    ResolvedCol(clock_hours_col,
                {lower(Hours), <<"e","l","a","p","s","e","d"," ","h","o","u","r","s">>,
                 <<"h","r","s">>})

\* a clock table is given and its three roles resolve to columns of it
ClockResolved ==
    /\ clock_df # NoFrame
    /\ HasCol(clock_df, ResolvedEmployee) /\ HasCol(clock_df, ResolvedDate)
    /\ HasCol(clock_df, ResolvedHours)

\* renaming the resolved columns leaves one column of each standard name
RenameIsClean ==
    \A c \in {Employee, Date, Hours} :
        Cardinality({i \in 1..Len(clock_df.columns) :
            \/ clock_df.columns[i] = c /\ clock_df.columns[i] \notin
                  {ResolvedEmployee, ResolvedDate, ResolvedHours}
            \/ /\ c = Hours /\ clock_df.columns[i] = ResolvedHours
            \/ /\ c = Date /\ clock_df.columns[i] = ResolvedDate
               /\ ResolvedDate # ResolvedHours
            \/ /\ c = Employee /\ clock_df.columns[i] = ResolvedEmployee
               /\ ResolvedEmployee \notin {ResolvedDate, ResolvedHours}}) = 1

\* every date cell of the clock table is a text that reads as a date
ClockDatesParse ==
    \A r \in 1..Len(clock_df.rows) :
        LET c == clock_df.rows[r][ColIdx(clock_df, ResolvedDate)]
        IN  IsStr(c) => to_datetime(c.str, None) # 0

\* the summed hours of an employee of the clock table, hours that are not
\* numbers counting 0
ClockHoursOf(name) ==
    SumSeq([r \in 1..Len(clock_df.rows) |->
        IF /\ clock_df.rows[r][ColIdx(clock_df, ResolvedEmployee)] = name
           /\ IsNum(clock_df.rows[r][ColIdx(clock_df, ResolvedHours)])
        THEN clock_df.rows[r][ColIdx(clock_df, ResolvedHours)].num ELSE 0])

\* the call returned an empty distribution and one row per employee of the
\* clock table, holding the employee's summed hours
ClockOnlyResult ==
    /\ pc = "returned" /\ exc = "none"
    /\ final_tip_distribution = <<>>
    /\ export_df.columns = <<EmployeeName, TotalTipShare>>
    /\ {export_df.rows[i][1] : i \in 1..Len(export_df.rows)}
          = {clock_df.rows[r][ColIdx(clock_df, ResolvedEmployee)] :
                r \in 1..Len(clock_df.rows)} \ {NaN}
    /\ \A i, j \in 1..Len(export_df.rows) :
          export_df.rows[i][1] = export_df.rows[j][1] => i = j
    /\ \A i \in 1..Len(export_df.rows) :
          export_df.rows[i][2] = Num(Scale * ClockHoursOf(export_df.rows[i][1]))

\* C6 as stated: a call without tips sources and with a clock table whose
\* three columns resolve returns an empty distribution and one export row
\* per employee with the employee's summed hours
C6_ClockOnlyReturnsSummedHours ==
    (pc \in {"returned", "raised"} /\ ClockOnlyCall /\ ClockResolved) => ClockOnlyResult

\* C6 amended: the same, for the clock tables whose date cells all read as
\* dates and whose renamed columns do not collide
C6_ClockOnlyReturnsSummedHoursOfCleanTable ==
    (/\ pc \in {"returned", "raised"} /\ ClockOnlyCall /\ ClockResolved
     /\ RenameIsClean /\ ClockDatesParse) => ClockOnlyResult

\* the clock-only call on hours Gina 1 + 2 and Hank 5 has returned 3 and 5
C6_Witness ==
    /\ pc = "returned" /\ ClockOnlyCall /\ ClockResolved
    /\ Len(clock_df.rows) = 3
    /\ final_tip_distribution = <<>>
    /\ export_df.rows = << <<Str("Gina"), Num(3 * Scale)>>,
                           <<Str("Hank"), Num(5 * Scale)>> >>

(***************************************************************************)
(* Properties of _detect_columns.                                          *)
(***************************************************************************)
\* a column of the table whose lower-cased name contains a keyword of the list
KeywordColumn(table, c, keywords) ==
    /\ HasCol(table, c)
    /\ \E k \in 1..Len(keywords) : Contains(keywords[k], lower(c))

\* C8: _detect_columns returns four columns of the table, or raises with
\* the list, in the order date, tips, hours, name and not empty, of the roles
\* that are not resolved - a role resolves by a keyword in a column name,
\* the date also by a column whose values read as dates
C8_AllFourRolesOrMissingList ==
    pc \in {"returned", "raised"} =>
        LET cols == args.columns
            named(kw) == \E i \in 1..Len(cols) : KeywordColumn(args, cols[i], kw)
            dated == named(date_kw) \/ \E i \in 1..Len(cols) : SniffsAsDate(args, i)
            unresolved == SelectSeq(<<"date_col", "tips_col", "hours_col", "name_col">>,
                LAMBDA r : \/ r = "date_col" /\ ~dated
                           \/ r = "tips_col" /\ ~named(tips_kw)
                           \/ r = "hours_col" /\ ~named(hours_kw)
                           \/ r = "name_col" /\ ~named(name_kw))
        IN  IF pc = "returned"
            THEN /\ unresolved = <<>>
                 /\ Len(ret) = 4
                 /\ \A i \in 1..4 : HasCol(args, ret[i])
                 /\ KeywordColumn(args, ret[2], tips_kw)
                 /\ KeywordColumn(args, ret[3], hours_kw)
                 /\ KeywordColumn(args, ret[4], name_kw)
            ELSE /\ DOMAIN ret = {"raised", "missing"}
                 /\ ret.raised = "KeyError"
                 /\ ret.missing # <<>>
                 /\ ret.missing = unresolved

\* the columns of the test table have been returned for the four roles
C8_WitnessReturned ==
    /\ pc = "returned"
    /\ args.columns = TestColumns
    /\ ret = <<TestColumns[1], TestColumns[2], TestColumns[3], TestColumns[4]>>

(***************************************************************************)
(* Properties of read_file_to_df.                                          *)
(***************************************************************************)
\* the row of the grid that became the header
ChosenRow == args.raw[ret.header_idx + 1]

\* the rows read_file_to_df scans, as indices from 0
Scanned ==
    0..((IF Len(args.raw) < ScanWindow THEN Len(args.raw) ELSE ScanWindow) - 1)

\* a row with at least 40% of its cells non-empty that is not a report line
\* (a report keyword and less than 70% of the cells non-empty)
Qualifies(row) ==
    /\ 10 * non_empty(row) >= 4 * Len(row)
    /\ has_report_keyword(row) => 10 * non_empty(row) >= 7 * Len(row)

\* C9 as stated: the header row has at least 40% of its cells non-empty and
\* is the first qualifying row among the first ScanWindow rows
C9_HeaderIsFirstQualifyingRow ==
    (pc = "returned" /\ "header_idx" \in DOMAIN ret) =>
        /\ 10 * non_empty(ChosenRow) >= 4 * Len(ChosenRow)
        /\ ret.header_idx \in Scanned
        /\ Qualifies(ChosenRow)
        /\ \A idx \in Scanned : idx < ret.header_idx => ~Qualifies(args.raw[idx + 1])

\* C9 amended: when the grid has more than one row and a row among the first
\* ScanWindow qualifies, the header is the first such row and has at least
\* 40% of its cells non-empty; in every other grid the header is row 0
C9_HeaderIsFirstQualifyingRowOrRowZero ==
    (pc = "returned" /\ "header_idx" \in DOMAIN ret) =>
        IF Len(args.raw) > 1 /\ \E idx \in Scanned : Qualifies(args.raw[idx + 1])
        THEN /\ 10 * non_empty(ChosenRow) >= 4 * Len(ChosenRow)
             /\ ret.header_idx \in Scanned
             /\ Qualifies(ChosenRow)
             /\ \A idx \in Scanned : idx < ret.header_idx => ~Qualifies(args.raw[idx + 1])
        ELSE ret.header_idx = 0

\* the header was found below a blank row and a report line that is filled
\* to 40% but not to 70%
C9_Witness ==
    /\ pc = "returned" /\ "header_idx" \in DOMAIN ret
    /\ ret.header_idx = 2
    /\ Len(args.raw) = 3
    /\ non_empty(args.raw[1]) = 0
    /\ has_report_keyword(args.raw[2])
    /\ 10 * non_empty(args.raw[2]) >= 4 * Len(args.raw[2])
    /\ Qualifies(args.raw[3])

(***************************************************************************)
(* Properties of is_clock_file.                                            *)
(***************************************************************************)
\* the file name contains the word, whatever the case of its letters
NameHas(word) == args.filename # None /\ Contains(word, lower(args.filename))

\* C10: a file name that contains "clock" or "timesheet" gives Clock (TRUE);
\* one that contains "sales" or "tip" and neither of the former gives Tips
\* (FALSE); the columns of the table play no part
C10_FilenameDecidesKind ==
    pc = "returned" =>
        /\ (NameHas(<<"c","l","o","c","k">>) \/ NameHas(<<"t","i","m","e","s","h","e","e","t">>)) => ret = TRUE
        /\ ((NameHas(<<"s","a","l","e","s">>) \/ NameHas(<<"t","i","p">>))
              /\ ~NameHas(<<"c","l","o","c","k">>) /\ ~NameHas(<<"t","i","m","e","s","h","e","e","t">>)) => ret = FALSE

\* a table with a tips column was classified Clock by a file name that
\* spells "timesheet" with capitals
C10_WitnessClock ==
    /\ pc = "returned"
    /\ args.filename = <<"T","i","m","e","S","h","e","e","t",".","x","l","s","x">>
    /\ args.df.columns = TestColumns
    /\ ret = TRUE

\* some column name, lower-cased, contains one of the keywords
ColumnsMention(keywords) ==
    \E i \in 1..Len(args.df.columns) : \E k \in 1..Len(keywords) :
        Contains(keywords[k], lower(args.df.columns[i]))

NoFilenameHint ==
    /\ ~NameHas(<<"c","l","o","c","k">>) /\ ~NameHas(<<"t","i","m","e","s","h","e","e","t">>)
    /\ ~NameHas(<<"s","a","l","e","s">>) /\ ~NameHas(<<"t","i","p">>)

\* C11: when the file name gives no hint, is_clock_file returns Clock (TRUE)
\* exactly when the lower-cased column names contain an employee-like, a
\* date-like and an hours-like keyword and no tips-like keyword; every other
\* column set, the one with no signal included, is Tips (FALSE)
C11_ColumnsDecideKindWithoutHint ==
    (pc = "returned" /\ NoFilenameHint) =>
        (ret = TRUE <=>
            /\ ColumnsMention(<<<<"e","m","p","l","o","y","e","e">>, <<"n","a","m","e">>, <<"s","t","a","f","f">>, <<"e","m","p">>>>)
            /\ ColumnsMention(<<<<"d","a","t","e">>, <<"s","h","i","f","t">>, <<"c","l","o","c","k">>>>)
            /\ ColumnsMention(<<<<"h","o","u","r">>, <<"h","o","u","r","s">>, <<"h","r","s">>, <<"e","l","a","p","s","e","d">>, <<"t","i","m","e">>>>)
            /\ ~ColumnsMention(<<<<"t","i","p">>, <<"t","i","p","s">>, <<"g","r","a","t","u","i","t","y">>, <<"g","r","a","t","u","i","t","i","e","s">>>>))
        /\ ret \in BOOLEAN

\* a table named data.csv with the columns Employee Name, Clock In Date and
\* Elapsed Hours was classified Clock by its columns alone
C11_Witness ==
    /\ pc = "returned"
    /\ args.filename = <<"d","a","t","a",".","c","s","v">>
    /\ args.df.columns = <<<<"E","m","p","l","o","y","e","e"," ","N","a","m","e">>, <<"C","l","o","c","k"," ","I","n"," ","D","a","t","e">>, <<"E","l","a","p","s","e","d"," ","H","o","u","r","s">>>>
    /\ ret = TRUE

(***************************************************************************)
(* Properties of the sales reports.                                        *)
(***************************************************************************)
\* the call is one of _extract_from_transposed_sales_report
ExtractCall == "file_bytes" \in DOMAIN args

Extracted == ExtractCall /\ pc = "returned"

\* the file name ends with a point and one of the supported extensions
SupportedName ==
    \E e \in {<<"c","s","v">>, <<"x","l","s">>, <<"x","l","s","x">>} :
        LET name == lower(args.filename)
        IN  /\ Len(name) > Len(e)
            /\ SubSeq(name, Len(name) - Len(e), Len(name)) = <<".">> \o e

Readable == args.file_bytes # Unreadable

\* the columns after the first in which the date of the date row parses and
\* the cell of the tips row is a number once cleaned
SurvivingColumns(raw, d, t) ==
    {j \in 2..Len(raw[d + 1]) :
        /\ parse_date(raw[d + 1][j], args.yearless) # NaN
        /\ to_numeric(clean(raw[t + 1][j])) # NaN}

\* nothing of the report can be extracted: the extension is unsupported,
\* the bytes do not read, no date row qualifies, no tips row is found, or no
\* pair survives the cleaning
NothingToExtract ==
    \/ ~SupportedName
    \/ ~Readable
    \/ find_date_row(args.file_bytes.grid, args.yearless) = NoRow
    \/ find_tips_row(args.file_bytes.grid) = NoRow
    \/ SurvivingColumns(args.file_bytes.grid,
                        find_date_row(args.file_bytes.grid, args.yearless),
                        find_tips_row(args.file_bytes.grid)) = {}

\* C12: _extract_from_transposed_sales_report never raises; it returns None
\* or a table of at least one row whose date and tip are both present, and
\* it returns None when the extension is unsupported, when the bytes do not
\* read, when no date row qualifies, when no tips row is found and when no
\* pair survives the cleaning
C12_ExtractorNeverRaises ==
    ExtractCall =>
        /\ pc # "raised"
        /\ pc = "returned" =>
              /\ \/ ret = None
                 \/ /\ ret # None
                    /\ Len(ret.rows) > 0
                    /\ \A i \in 1..Len(ret.rows) : IsNum(ret.rows[i][2]) /\ IsNum(ret.rows[i][4])
              /\ NothingToExtract => ret = None

\* bytes that read_csv rejects were given with a .csv name, and None came back
C12_Witness ==
    /\ Extracted
    /\ args.file_bytes = Unreadable
    /\ args.filename = <<"r","e","p","o","r","t",".","c","s","v">>
    /\ ret = None

\* C13: the extractor pairs the date-row cell and the tips-row cell of the
\* same column, for every column from 1 on, and returns exactly the pairs
\* whose date parses and whose tip is a number, in the order of the columns,
\* each amount with the date of its own column
C13_PairsKeepTheirColumn ==
    (Extracted /\ SupportedName /\ Readable) =>
        LET raw == args.file_bytes.grid
            d == find_date_row(raw, args.yearless)
            t == find_tips_row(raw)
            cols == SurvivingColumns(raw, d, t)
            nth(i) == CHOOSE j \in cols : Cardinality({k \in cols : k < j}) = i - 1
        IN  (d # NoRow /\ t # NoRow /\ cols # {}) =>
                /\ ret # None
                /\ Len(ret.rows) = Cardinality(cols)
                /\ \A i \in 1..Len(ret.rows) :
                      /\ ret.rows[i][2] = parse_date(raw[d + 1][nth(i)], args.yearless)
                      /\ ret.rows[i][4] = to_numeric(clean(raw[t + 1][nth(i)]))

\* the date row 28-Jun, 29-Jun above the row Tips, 100, 200 gave two pairs:
\* 100.00 on the 28th of June 2025 and 200.00 on the 29th
C13_Witness ==
    /\ Extracted
    /\ args.filename = <<"r","e","p","o","r","t",".","c","s","v">>
    /\ args.file_bytes = [grid |-> << <<NaN, Str(<<"2","8","-","J","u","n">>), Str(<<"2","9","-","J","u","n">>)>>,
                                      <<Str(Tips), Str(<<"1","0","0">>), Str(<<"2","0","0">>)>> >>]
    /\ ret # None
    /\ ret.rows = << <<Str("Daily Tips"), Num(0 - 125), Num(1), Num(10000)>>,
                     <<Str("Daily Tips"), Num(0 - 124), Num(1), Num(20000)>> >>

\* the call is one of process_sales_csv
ProcessSalesCall == "tips_row_label" \in DOMAIN args

\* the text of a cell without '$', ',' and ')' and with '-' for '('
Unformatted(cell) ==
    LET kept == SelectSeq(str(cell), LAMBDA c : c \notin {"$", ",", ")"})
    IN  [i \in 1..Len(kept) |-> IF kept[i] = "(" THEN "-" ELSE kept[i]]

\* the amount that a tip cell stands for, NaN when it is not a number
Amount(cell) == to_numeric(Unformatted(cell))

\* the rows of the table that carry the tips label
LabelledRows ==
    IF \E c \in 1..Len(args.df.columns) : args.df.columns[c] = args.sales_col_label
    THEN {i \in 1..Len(args.df.rows) :
             \E c \in 1..Len(args.df.columns) :
                 /\ args.df.columns[c] = args.sales_col_label
                 /\ args.df.rows[i][c] = Str(args.tips_row_label)}
    ELSE {}

\* C14: the tip-cell cleaning of process_sales_csv and of the transposed
\* extractor strips '$' and ',', turns accounting parentheses into a leading
\* minus sign and parses the rest as a number: "$(500.00)" becomes -500.00
\* and "$450.50" becomes 450.50; a cell that is not a number once cleaned is
\* left out of the output and raises nothing
C14_TipCellsAreCleaned ==
    /\ (ProcessSalesCall /\ LabelledRows # {}) =>
          /\ pc # "raised"
          /\ pc = "returned" =>
                LET tips_row == args.df.rows[CHOOSE i \in LabelledRows :
                                                 \A k \in LabelledRows : i <= k]
                    dated == {j \in (args.data_start_col + 1)..Len(tips_row) :
                                 strip(str(args.df.rows[1][j])) # <<>>}
                    cols == {j \in dated : Amount(tips_row[j]) # NaN}
                IN  /\ Len(ret.ok.rows) = Cardinality(cols)
                    /\ \A j \in cols : \E i \in 1..Len(ret.ok.rows) :
                          ret.ok.rows[i] = <<Str(strip(str(args.df.rows[1][j]))),
                                           Amount(tips_row[j])>>
                    /\ \A j \in dated :
                          /\ tips_row[j] = Str(<<"$","(","5","0","0",".","0","0",")">>) =>
                                \E i \in 1..Len(ret.ok.rows) : ret.ok.rows[i][2] = Num(0 - 50000)
                          /\ tips_row[j] = Str(<<"$","4","5","0",".","5","0">>) =>
                                \E i \in 1..Len(ret.ok.rows) : ret.ok.rows[i][2] = Num(45050)
    /\ (Extracted /\ ret # None) =>
          LET raw == args.file_bytes.grid
              tips_row == raw[find_tips_row(raw) + 1]
              amounts == {Amount(tips_row[j]) : j \in 2..Len(tips_row)} \ {NaN}
          IN  /\ \A i \in 1..Len(ret.rows) : ret.rows[i][4] \in amounts
              /\ Len(ret.rows) <= Cardinality({j \in 2..Len(tips_row) : Amount(tips_row[j]) # NaN})
              /\ Str(<<"$","(","5","0","0",".","0","0",")">>) \in {tips_row[j] : j \in 2..Len(tips_row)}
                    => Num(0 - 50000) \in amounts

\* process_sales_csv read the row Tips, $450.50, $(500.00) from column 1 on
\* and returned 450.50 and -500.00, sorted by their dates
C14_Witness ==
    /\ ProcessSalesCall
    /\ pc = "returned"
    /\ args.data_start_col = 1
    /\ args.df.rows = << <<Str(<<"x">>), Str(<<"2","0","2","5","-","0","6","-","2","9">>), Str(<<"2","0","2","5","-","0","6","-","2","8">>)>>,
                         <<Str(Tips), Str(<<"$","4","5","0",".","5","0">>), Str(<<"$","(","5","0","0",".","0","0",")">>)>> >>
    /\ ret.ok.rows = << <<Str(<<"2","0","2","5","-","0","6","-","2","8">>), Num(0 - 50000)>>,
                        <<Str(<<"2","0","2","5","-","0","6","-","2","9">>), Num(45050)>> >>

(***************************************************************************)
(* Properties of process_clock_csv and of _normalize_df.                   *)
(***************************************************************************)
\* the call is one of process_clock_csv
ProcessClockCall == "employee_col" \in DOMAIN args

Aggregated == ProcessClockCall /\ pc \in {"returned", "returned_again"}

ArgCell(i, col) ==
    args.df.rows[i][CHOOSE c \in 1..Len(args.df.columns) : args.df.columns[c] = col]

\* the day of the date of row i: a text read in the format of the call, a
\* date that is a date already; 0 when there is none
ShiftDay(i) ==
    LET c == ArgCell(i, args.date_col)
    IN  IF c = NaN THEN 0
        ELSE IF IsNum(c) THEN c.num
        ELSE to_datetime(c.str, args.date_format)

\* the valid rows: employee and date present, hours numeric, date parseable
ValidShifts ==
    {i \in 1..Len(args.df.rows) :
        /\ ArgCell(i, args.employee_col) # NaN
        /\ IsNum(ArgCell(i, args.hours_col))
        /\ ShiftDay(i) # 0}

ShiftsOf(employee, day) ==
    {i \in ValidShifts : ArgCell(i, args.employee_col) = employee /\ ShiftDay(i) = day}

RECURSIVE HoursOfShifts(_)
HoursOfShifts(shifts) ==
    IF shifts = {} THEN 0
    ELSE LET i == CHOOSE x \in shifts : TRUE
         IN  ArgCell(i, args.hours_col).num + HoursOfShifts(shifts \ {i})

\* C15: process_clock_csv returns exactly one row per (employee, date) pair
\* of the valid input rows, with Total Daily Hours the sum of the hours of
\* the valid rows of the pair, in ascending order of (employee, date);
\* invalid rows contribute to no output row
C15_OneRowPerEmployeeAndDate ==
    Aggregated =>
        LET out == ret.ok.rows
        IN  /\ ret.ok.columns = <<args.employee_col, args.date_col, TotalDailyHours>>
            /\ \A i \in ValidShifts : \E k \in 1..Len(out) :
                  out[k][1] = ArgCell(i, args.employee_col) /\ out[k][2] = Num(ShiftDay(i))
            /\ \A k \in 1..Len(out) :
                  /\ ShiftsOf(out[k][1], out[k][2].num) # {}
                  /\ out[k][3] = Num(HoursOfShifts(ShiftsOf(out[k][1], out[k][2].num)))
            /\ \A k \in 1..(Len(out) - 1) :
                  \/ StrLess(out[k][1].str, out[k + 1][1].str)
                  \/ out[k][1] = out[k + 1][1] /\ out[k][2].num < out[k + 1][2].num

\* Alice's two shifts of 3 and 5 hours on one day were returned as one row
\* of 8 hours
C15_Witness ==
    /\ ProcessClockCall
    /\ pc = "returned"
    /\ args.df.rows = << <<Str("Alice"), Str("01-Nov-25"), Num(3)>>,
                         <<Str("Alice"), Str("01-Nov-25"), Num(5)>> >>
    /\ ret.ok.rows = << <<Str("Alice"), Num(1), Num(8)>> >>

\* C16: clock aggregation is idempotent: process_clock_csv called on the
\* table it returned, grouping by the same employee and date columns with
\* the total-hours column as the hours column, returns the same columns and
\* the same rows with the same totals in the same order
C16_AggregationIsIdempotent ==
    [][(ProcessClockCall /\ pc = "returned" /\ pc' # "returned")
          => (pc' = "returned_again" /\ ret' = ret)]_vars

\* the table of Alice's 3 hours and Bob's 3 hours was aggregated again, and
\* came back as it was
C16_Witness ==
    /\ ProcessClockCall
    /\ pc = "returned_again"
    /\ args.hours_col = TotalDailyHours
    /\ args.df.rows = << <<Str("Alice"), Num(1), Num(3)>>, <<Str("Bob"), Num(1), Num(3)>> >>
    /\ ret.ok.rows = args.df.rows

\* the call is one of _normalize_df
NormalizeCall == "name_col" \in DOMAIN args

\* the columns that the call requires
Required ==
    IF ProcessClockCall THEN <<args.employee_col, args.date_col, args.hours_col>>
    ELSE <<args.date_col, args.tips_col, args.hours_col, args.name_col>>

Absent(col) == \A c \in 1..Len(args.df.columns) : args.df.columns[c] # col

\* C17: process_clock_csv and _normalize_df raise KeyError when a required
\* column is absent from the table, whatever its rows hold; the error names
\* every absent required column and no other, and no table is returned
C17_MissingColumnsRaiseKeyError ==
    ((ProcessClockCall \/ NormalizeCall) /\ pc \in {"raised", "returned", "returned_again"}) =>
        IF \E k \in 1..Len(Required) : Absent(Required[k])
        THEN /\ pc = "raised"
             /\ ret.raised = "KeyError"
             /\ "ok" \notin DOMAIN ret
             /\ \A k \in 1..Len(Required) :
                   Absent(Required[k]) <=> \E m \in 1..Len(ret.missing) : ret.missing[m] = Required[k]
             /\ \A m \in 1..Len(ret.missing) : \E k \in 1..Len(Required) : ret.missing[m] = Required[k]
        ELSE pc = "raised" => ret.raised # "KeyError"

\* _normalize_df was given a table that has only the date column, in a row
\* whose date does not parse, and raised KeyError for the three other columns
C17_Witness ==
    /\ NormalizeCall
    /\ pc = "raised"
    /\ args.df.columns = <<TestColumns[1]>>
    /\ args.df.rows = << <<Str("bad")>> >>
    /\ ret.raised = "KeyError"
    /\ ret.missing = <<TestColumns[2], TestColumns[3], TestColumns[4]>>

(***************************************************************************)
(* Properties of calculate_tip and calculate_pay.                          *)
(***************************************************************************)
TipCall == "amount" \in DOMAIN args
PayCall == "hours" \in DOMAIN args

\* the number of whole cents nearest to digits * 10^exp, a half going up
HalfUpCents(digits, exp) ==
    LET c == normal(digits)
        drop == 0 - 2 - exp
        wide == IF drop > Len(c) THEN [i \in 1..(drop - Len(c)) |-> 0] \o c ELSE c
        whole == SubSeq(wide, 1, Len(wide) - drop)
    IN  IF drop <= 0 THEN normal(c \o [i \in 1..(0 - drop) |-> 0])
        ELSE IF wide[Len(wide) - drop + 1] >= 5 THEN normal(plus(whole, <<>>, 1))
        ELSE normal(whole)

Below0(d) == d.sign = 1 /\ \E i \in 1..Len(d.digits) : d.digits[i] # 0

\* C18: calculate_tip(amount, percent) returns amount * percent / 100
\* rounded to whole cents, a half cent going up, for all non-negative
\* arguments, and raises ValueError when an argument is negative;
\* calculate_pay does the same for hours * rate
C18_ProductRoundedHalfUpToCents ==
    /\ (TipCall /\ pc \in {"returned", "raised"}) =>
          IF Below0(args.amount) \/ Below0(args.percent)
          THEN pc = "raised" /\ ret = [raised |-> "ValueError"]
          ELSE /\ pc = "returned"
               /\ ret.exp = 0 - 2
               /\ ret.digits = HalfUpCents(times(args.amount.digits, args.percent.digits),
                                           args.amount.exp + args.percent.exp - 2)
    /\ (PayCall /\ pc \in {"returned", "raised"}) =>
          IF Below0(args.hours) \/ Below0(args.rate)
          THEN pc = "raised" /\ ret = [raised |-> "ValueError"]
          ELSE /\ pc = "returned"
               /\ ret.exp = 0 - 2
               /\ ret.digits = HalfUpCents(times(args.hours.digits, args.rate.digits),
                                           args.hours.exp + args.rate.exp)

\* the same for arguments whose product is written with at most prec
\* digits and whose result in cents is
C18_ExactProductRoundedHalfUpToCents ==
    /\ (TipCall /\ pc \in {"returned", "raised"}) =>
          IF Below0(args.amount) \/ Below0(args.percent)
          THEN pc = "raised" /\ ret = [raised |-> "ValueError"]
          ELSE LET product == times(args.amount.digits, args.percent.digits)
                   cents == HalfUpCents(product, args.amount.exp + args.percent.exp - 2)
               IN  (Len(normal(product)) <= prec /\ Len(cents) <= prec) =>
                       pc = "returned" /\ ret.exp = 0 - 2 /\ ret.digits = cents
    /\ (PayCall /\ pc \in {"returned", "raised"}) =>
          IF Below0(args.hours) \/ Below0(args.rate)
          THEN pc = "raised" /\ ret = [raised |-> "ValueError"]
          ELSE LET product == times(args.hours.digits, args.rate.digits)
                   cents == HalfUpCents(product, args.hours.exp + args.rate.exp)
               IN  (Len(normal(product)) <= prec /\ Len(cents) <= prec) =>
                       pc = "returned" /\ ret.exp = 0 - 2 /\ ret.digits = cents

\* 1 at 0.5 percent gave 0.01
C18_WitnessHalfCent ==
    /\ TipCall
    /\ pc = "returned"
    /\ args.amount = Decimal(0, <<1>>, 0)
    /\ args.percent = Decimal(0, <<5>>, 0 - 1)
    /\ ret = Decimal(0, <<1>>, 0 - 2)

\* 0.5 at 0.99999999999999999999999999999 percent gave 0.01, and not the
\* 0.00 of the exact 0.00499999999999999999999999999995
C18_WitnessDoubleRounding ==
    /\ TipCall
    /\ pc = "returned"
    /\ args.amount = Decimal(0, <<5>>, 0 - 1)
    /\ args.percent = Decimal(0, [i \in 1..29 |-> 9], 0 - 29)
    /\ ret = Decimal(0, <<1>>, 0 - 2)

(***************************************************************************)
(* Properties of the returned distribution.                                *)
(***************************************************************************)
\* C20: every value of the distribution that a call with tips sources
\* returns is non-negative, whatever the tip cells of the sources are
C20_SharesAreNonNegative ==
    (pc = "returned" /\ TipsCall) =>
        \A i \in 1..Len(final_tip_distribution) : final_tip_distribution[i][2] >= 0

(***************************************************************************)
(* Properties of the upload handler.                                       *)
(***************************************************************************)
\* the request of tests/test_web_integration.py has been answered: a clock
\* file and two flat tips files for the employees and dates of the clock file
AnsweredTestUpload ==
    pc = "responded" /\ args.files = <<ClockXlsx, Input1Xlsx, Input2Xlsx>>

\* C19: the answer to the upload of one clock file and two flat tips files
\* has status 200 and is an Excel attachment with a sheet
\* 'Tip Distribution Summary' whose columns include 'Employee Name' and
\* 'Total Tip Share'
C19_UploadReturnsExcelAttachment ==
    AnsweredTestUpload =>
        /\ ret.status = 200
        /\ ret.as_attachment
        /\ ret.mimetype = "application/vnd.openxmlformats-officedocument.spreadsheetml.sheet"
        /\ "sheet_name" \in DOMAIN ret.body
        /\ ret.body.sheet_name = "Tip Distribution Summary"
        /\ HasCol(ret.body, EmployeeName) /\ HasCol(ret.body, TotalTipShare)

\* what the handler answers to that upload: the export table has a row for
\* each employee and no column 'Total Hours Worked', the report raises, and
\* the index page comes back with the error flashed
C19_UploadReturnsIndexPage ==
    AnsweredTestUpload =>
        /\ exc = "none"
        /\ export_df.columns = <<EmployeeName, TotalTipShare>>
        /\ Len(export_df.rows) = 2
        /\ ret = render_index("Error processing file")

\* C21: handling a date whose total hours are non-positive or whose total
\* tips are non-positive allocates nothing to any employee and raises nothing
C21_NonPositivePoolIsSkipped ==
    [][(AtDate /\ (HoursOf(Head(daily_groups)) <= 0 \/ TipsOf(Head(daily_groups)) <= 0))
       => /\ final_tip_distribution' = final_tip_distribution
          /\ pc' = "loop" /\ exc' = "none"]_vars

(***************************************************************************)
(* Properties of a call with a list of tables.                             *)
(***************************************************************************)
\* a call with a list of tables and no clock table has returned
ListReturned ==
    /\ pc = "returned" /\ TipsCall /\ "list" \in DOMAIN df_or_list
    /\ clock_df = NoFrame

\* the columns of the tables of a list, each once, in the order in which
\* they first appear
RECURSIVE ColumnsOf(_)
ColumnsOf(tables) ==
    IF tables = <<>> THEN <<>>
    ELSE LET before == ColumnsOf(SubSeq(tables, 1, Len(tables) - 1))
             last == tables[Len(tables)].columns
         IN  before \o SelectSeq(last, LAMBDA c : \A i \in 1..Len(before) : before[i] # c)

\* the row union of the tables of a list: every row of every table, in the
\* order of the list, NaN in the columns its table does not have
RECURSIVE RowsUnder(_, _)
RowsUnder(tables, cols) ==
    IF tables = <<>> THEN <<>>
    ELSE LET t == Head(tables)
         IN  [r \in 1..Len(t.rows) |->
                [k \in 1..Len(cols) |-> IF HasCol(t, cols[k])
                                        THEN t.rows[r][ColIdx(t, cols[k])] ELSE NaN]]
             \o RowsUnder(Tail(tables), cols)

RowUnion(tables) == [columns |-> ColumnsOf(tables), rows |-> RowsUnder(tables, ColumnsOf(tables))]

\* what a call without a clock table returns for one table and four role
\* columns: [ok |-> distribution], or [raised |-> type]
ReturnedFor(table, d_col, t_col, h_col, n_col) ==
    LET RECURSIVE loop(_, _, _)
        loop(norm, dates, dict) ==
            IF dates = <<>> THEN dict
            ELSE loop(norm, Tail(dates),
                      distribute_day(norm, d_col, t_col, h_col, n_col, Head(dates), dict))
        over(norm) ==
            IF "raised" \in DOMAIN norm THEN [raised |-> norm.raised]
            ELSE [ok |-> loop(norm.ok, groupby_dates(norm.ok, d_col), <<>>)]
    IN  over(normalize_df(table, d_col, t_col, h_col, n_col))

\* what the call with auto-detection returns for one table
ReturnedForDetected(table) ==
    LET with(roles) ==
            IF roles.missing # <<>> THEN [raised |-> "KeyError"]
            ELSE ReturnedFor(table, roles.date_col, roles.tips_col, roles.hours_col,
                             roles.name_col)
    IN  with(detect_columns(table))

\* a distribution as a mapping: the set of its (employee, amount) pairs
Mapping(dict) == {dict[i] : i \in 1..Len(dict)}

\* the list of the call with its tables in the opposite order
Reversed == [i \in 1..Len(df_or_list.list) |->
               df_or_list.list[Len(df_or_list.list) + 1 - i]]

\* the roles of the call are those that auto-detection finds in a table
DetectedIn(table) ==
    \E roles \in {detect_columns(table)} :
        /\ roles.missing = <<>>
        /\ roles.date_col = date_col /\ roles.tips_col = tips_col
        /\ roles.hours_col = hours_col /\ roles.name_col = name_col

\* the call returned what the call on the row union of the list returns
SameAsRowUnion ==
    \E single \in {ReturnedFor(RowUnion(df_or_list.list), date_col, tips_col,
                               hours_col, name_col)} :
        /\ "ok" \in DOMAIN single
        /\ Mapping(single.ok) = Mapping(final_tip_distribution)

\* C22: a call with a list of tables returns the distribution of the single
\* table that is the row union of the list, and the call with auto-detection
\* returns the same distribution for the list in the opposite order
C22_ListIsRowUnionInAnyOrder ==
    ListReturned =>
        /\ SameAsRowUnion
        /\ DetectedIn(RowUnion(df_or_list.list)) =>
              \E other \in {ReturnedForDetected(RowUnion(Reversed))} :
                  /\ "ok" \in DOMAIN other
                  /\ Mapping(other.ok) = Mapping(final_tip_distribution)

\* C22 amended: a call with a list of tables returns the distribution of the
\* row union of the list; the list in the opposite order gives the same
\* distribution when the four roles resolve to the same columns in it
C22_ListIsRowUnionInAnyOrderOfSameRoles ==
    ListReturned =>
        /\ SameAsRowUnion
        /\ DetectedIn(RowUnion(Reversed)) =>
              \E other \in {ReturnedFor(RowUnion(Reversed), date_col, tips_col,
                                        hours_col, name_col)} :
                  /\ "ok" \in DOMAIN other
                  /\ Mapping(other.ok) = Mapping(final_tip_distribution)

\* the call on a list of two different tables of the same columns, in which
\* Alice has a row for the first date in both tables, has returned
C22_Witness ==
    /\ ListReturned
    /\ Len(df_or_list.list) = 2
    /\ df_or_list.list[1] # df_or_list.list[2]
    /\ df_or_list.list[1].columns = df_or_list.list[2].columns
    /\ Len(df_or_list.list[1].rows) = 1 /\ Len(df_or_list.list[2].rows) = 2
    /\ DetectedIn(RowUnion(Reversed))
    /\ final_tip_distribution = << <<Str("Alice"), 4 * Scale>>, <<Str("Bob"), 4 * Scale>> >>

(***************************************************************************)
(* Properties of the header row and of the data rows of read_file_to_df.   *)
(***************************************************************************)
\* the rows r < min(ScanWindow, row count) that the scan accepts
Accepted == {r \in Scanned : Qualifies(args.raw[r + 1])}

\* C23: the header is the lowest row r < min(15, row count) with at least
\* 40% of its cells non-empty that is not a report line filled to less than
\* 70%; row 0 when there is no such row or the grid has at most one row; the
\* rows above the header are discarded and every row below it is a data row
C23_HeaderIsLowestAcceptedRowAndRowsBelowAreData ==
    (pc = "returned" /\ "header_idx" \in DOMAIN ret) =>
        /\ ret.header_idx =
              IF Len(args.raw) > 1 /\ Accepted # {}
              THEN CHOOSE r \in Accepted : \A other \in Accepted : r <= other
              ELSE 0
        /\ Len(ret.ok.rows) = Len(args.raw) - (ret.header_idx + 1)
        /\ \A i \in 1..Len(ret.ok.rows) : ret.ok.rows[i] = args.raw[ret.header_idx + 1 + i]
        /\ ret.ok.columns = [k \in 1..Len(ChosenRow) |-> strip(str(ChosenRow[k]))]

\* two accepted rows below a blank row: the first is the header and the
\* second is the only data row
C23_Witness ==
    /\ pc = "returned" /\ "header_idx" \in DOMAIN ret
    /\ Len(args.raw) = 3
    /\ Accepted = {1, 2}
    /\ ret.header_idx = 1
    /\ ret.ok.rows = <<args.raw[3]>>

(***************************************************************************)
(* Properties of the keyword step of _detect_columns.                      *)
(***************************************************************************)
\* the positions of the columns whose lower-cased name contains a keyword
Named(keywords) ==
    {i \in 1..Len(args.columns) :
        \E kw \in {keywords[k] : k \in 1..Len(keywords)} :
            Contains(kw, lower(args.columns[i]))}

\* the first of them in column order
FirstNamed(keywords) ==
    args.columns[CHOOSE i \in Named(keywords) : \A j \in Named(keywords) : i <= j]

\* C24: each role for which some column name contains a keyword of the role
\* resolves to the first such column in column order, whatever the order of
\* the keywords and whatever the other roles resolve to
C24_RoleIsFirstColumnWithAKeyword ==
    LET kws == <<date_kw, tips_kw, hours_kw, name_kw>>
        roles == <<"date_col", "tips_col", "hours_col", "name_col">>
    IN  /\ pc = "returned" /\ Len(ret) = 4 /\ "columns" \in DOMAIN args =>
              \A i \in 1..4 : Named(kws[i]) # {} => ret[i] = FirstNamed(kws[i])
        /\ pc = "raised" /\ "missing" \in DOMAIN ret /\ "columns" \in DOMAIN args =>
              \A i \in 1..4 : Named(kws[i]) # {} =>
                  \A m \in 1..Len(ret.missing) : ret.missing[m] # roles[i]

\* every role has two columns, and the one that comes first, named by a
\* later keyword of the role, has been returned
C24_Witness ==
    /\ pc = "returned" /\ Len(ret) = 4 /\ "columns" \in DOMAIN args
    /\ args.columns = << <<"S","t","a","f","f">>, EmployeeName, <<"H","r","s">>, <<"H","o","u","r","s"," ","W","o","r","k","e","d">>, <<"G","r","a","t","u","i","t","i","e","s">>,
                         <<"D","a","i","l","y"," ","T","i","p"," ","T","o","t","a","l">>, <<"D","a","y">>, <<"S","h","i","f","t"," ","D","a","t","e">> >>
    /\ ret = << <<"D","a","y">>, <<"G","r","a","t","u","i","t","i","e","s">>, <<"H","r","s">>, <<"S","t","a","f","f">> >>

(***************************************************************************)
(* Properties of the fuzzy step of _detect_columns.                        *)
(***************************************************************************)
\* the lower-cased column names of the table
LoweredNames == [i \in 1..Len(args.columns) |-> lower(args.columns[i])]

\* the role is unresolved after the keyword step (and, for the date, after
\* the sniffing of the values) and a keyword of it has a close match
CloselyNamedOnly(i, keywords) ==
    /\ Named(keywords) = {}
    /\ i = 1 => ~\E c \in 1..Len(args.columns) : SniffsAsDate(args, c)
    /\ \E k \in 1..Len(keywords) : get_close_matches(keywords[k], LoweredNames) # None

\* C25: a role that the keyword step (and the date sniffing) leaves
\* unresolved, and for which a column name is a close match of one of its
\* keywords, is resolved by the fuzzy step: it is not reported as missing
C25_CloseMatchResolvesRole ==
    LET kws == <<date_kw, tips_kw, hours_kw, name_kw>>
        roles == <<"date_col", "tips_col", "hours_col", "name_col">>
    IN  (pc = "raised" /\ "missing" \in DOMAIN ret /\ "columns" \in DOMAIN args) =>
            \A i \in 1..4 : CloselyNamedOnly(i, kws[i]) =>
                \A m \in 1..Len(ret.missing) : ret.missing[m] # roles[i]

(***************************************************************************)
(* Properties of the date row of the transposed extractor.                 *)
(***************************************************************************)
\* the rows of the window 0..DateScanWindow-1 whose short-date cells are at
\* least 80% of the cells after column 0, and the rows at an index > 2 whose
\* parseable cells are at least 80% of them
ShortDateRows ==
    {idx \in 0..(Len(args.file_bytes.grid) - 1) :
        /\ idx < DateScanWindow
        /\ 10 * short_date_count(args.file_bytes.grid[idx + 1])
              >= 8 * (Len(args.file_bytes.grid[idx + 1]) - 1)}

ParseableDateRows ==
    {idx \in 0..(Len(args.file_bytes.grid) - 1) :
        /\ idx < DateScanWindow /\ idx > 2
        /\ 10 * date_count(args.file_bytes.grid[idx + 1], args.yearless)
              >= 8 * (Len(args.file_bytes.grid[idx + 1]) - 1)}

Least(rows) == IF rows = {} THEN NoRow ELSE CHOOSE r \in rows : \A o \in rows : r <= o

\* the table that the extractor returns when its date row is the row d
TableOfDateRow(d) ==
    LET raw == args.file_bytes.grid
        t == find_tips_row(raw)
        pairs(cols) ==
            [i \in 1..Cardinality(cols) |->
                LET j == CHOOSE c \in cols : Cardinality({k \in cols : k < c}) = i - 1
                IN  <<Str("Daily Tips"), parse_date(raw[d + 1][j], args.yearless), Num(1),
                      to_numeric(clean(raw[t + 1][j]))>>]
    IN  IF d = NoRow \/ t = NoRow THEN None
        ELSE IF SurvivingColumns(raw, d, t) = {} THEN None
        ELSE [columns |-> TransposedColumns, rows |-> pairs(SurvivingColumns(raw, d, t))]

Loading == pc \in {"load", "load_flat"}

\* the tips files of the request, in the order of the upload
TipsFilesOfRequest ==
    SelectSeq(args.files,
              LAMBDA f : /\ f.filename # <<>> /\ allowed_file(f.filename)
                         /\ ~is_clock_file(read_upload(f).ok, f.filename))

\* what the extractor returns for a file of the request
MatchOf(f) == extract_from_transposed_sales_report(f.file_bytes, f.filename, args.yearless)

RolesResolved == "roles" \in DOMAIN args /\ pc # "call"

\* C28: when one of the four role arguments is absent all four roles are
\* those of auto-detection, the given ones included, and the call raises
\* KeyError when auto-detection misses a role; the roles are those of the
\* caller only when all four are given
C28_RolesAreAllGivenOrAllDetected ==
    RolesResolved =>
        IF \A i \in 1..4 : args.roles[i] # None
        THEN <<date_col, tips_col, hours_col, name_col>> = args.roles
        ELSE \E detected \in {detect_columns(df_or_list)} :
                IF detected.missing # <<>>
                THEN pc = "raised" /\ exc = "KeyError"
                ELSE <<date_col, tips_col, hours_col, name_col>>
                        = <<detected.date_col, detected.tips_col, detected.hours_col,
                            detected.name_col>>

\* the caller gave 'Staff' as the name column and no date column: the call
\* returned Alice's share, by the detected column 'Employee Name', and
\* nothing for Bob of the column 'Staff'
C28_Witness ==
    /\ RolesResolved /\ pc = "returned"
    /\ args.roles = <<None, TestColumns[2], TestColumns[3], <<"S","t","a","f","f">>>>
    /\ name_col = EmployeeName
    /\ final_tip_distribution = << <<Str("Alice"), 4 * Scale>> >>

(***************************************************************************)
(* Properties of a source of transposed records.                           *)
(***************************************************************************)
\* the call has a single tips table of the columns of the transposed
\* extractor, with at least one record, each of the placeholder employee
\* 'Daily Tips' and hours 1
TransposedOnly ==
    /\ TipsCall /\ "columns" \in DOMAIN df_or_list
    /\ df_or_list.columns = TransposedColumns
    /\ df_or_list.rows # <<>>
    /\ \A r \in 1..Len(df_or_list.rows) :
          df_or_list.rows[r][1] = Str("Daily Tips") /\ df_or_list.rows[r][3] = Num(1)

\* the tip total of the dated records of the source, in units of 1/Scale
TransposedTips ==
    LET table == normalize_df(df_or_list, Date, TransposedColumns[4], Hours, Employee).ok
        dated == SelectSeq(table.rows, LAMBDA r : r[2] # Num(0))
    IN  Scale * SumSeq([i \in 1..Len(dated) |-> dated[i][4].num])

\* C29: a call on a source of transposed records only, with or without a
\* clock table, returns, and its distribution gives the tip total of the
\* dates to 'Daily Tips' and nothing to anybody else
C29_TransposedTipsGoToDailyTips ==
    (TransposedOnly /\ pc \in {"returned", "raised"}) =>
        /\ pc = "returned"
        /\ final_tip_distribution \in { <<>>, << <<Str("Daily Tips"), TransposedTips>> >> }
        /\ final_tip_distribution = <<>> => TransposedTips = 0

====
